---------------------------- MODULE Spec2Model ----------------------------
(***************************************************************************)
(* Kirana Insights frontend: the Transport Client (services/api.js), the   *)
(* view controllers of the dashboard, upload, forecast, reorder and        *)
(* settings pages, and the result assemblers of the forecast and reorder   *)
(* pages.                                                                  *)
(*                                                                         *)
(* Strings are TLA+ strings, built as the code builds them (template       *)
(* literals become \o).  A JSON field value is a record [t, s]: t is its   *)
(* JavaScript type, s its text when it is a string.                        *)
(***************************************************************************)
EXTENDS Integers, Sequences, FiniteSets, TLC

VARIABLES
    \* Transport Client harness: one call of one operation
    tPc, tOp, tNet, tResult,
    \* which <Route> of App is shown
    route,
    \* the runs of handleUpload, handleRunForecast and seedFestivals of pages
    \* no longer shown: how many await each call
    left,
    \* the api call whose throw the last step handled, with the message
    lastFail,
    \* UploadPage: its state, where handleUpload stands, the file it
    \* closed over, the api calls of the current run, initDb's error in it
    upFile, upUploading, upResult, upError, upDragover,
    upPc, upRunFile, upCalls, upInitErr,
    \* ReorderPage: its state, the getStores call, the getReorderList calls
    \* in flight, how many were issued, the latest one that succeeded
    rMounted, rReorderList, rLoading, rError, rStores, rSelectedStore,
    rHorizon, rStoresReq, rReqs, rIssued, rLatestOk,
    \* ForecastPage: its state, the getStores call, the getStoreSKUs calls
    \* in flight, how many were issued, the latest one that succeeded,
    \* where handleRunForecast stands with the values it closed over
    fMounted, fStores, fSelectedStore, fSkus, fSelectedSku, fHorizon,
    fForecast, fLoading, fRunning, fError,
    fStoresReq, fSkuReqs, fSkuIssued, fSkuLatestOk, fRun,
    \* SettingsPage: its state, the getFestivals calls in flight, how many
    \* were issued, the seedFestivals call, how often the button was clicked
    sMounted, sFestivals, sLoading, sSeeding, sMessage,
    sFestReqs, sFestIssued, sSeedReq, sSeeds,
    \* DashboardPage: its state, the getStores and getMandiPrices calls with
    \* the answers the network holds for them, the getReorderSummary calls
    \* in flight, how many were issued
    dMounted, dStores, dSummary, dMandiPrices, dLoading, dSelectedStore,
    dStoresReq, dMandiReq, dSumReqs, dSumIssued,
    \* one render of the forecast page's or the reorder page's results: the
    \* response held, the horizon, the loading flag, the store list, and what
    \* the render computes from them
    aPc, aForecast, aHorizon, aLoading, aStores, aChart, aForecastStats,
    aReorderList, aReorderStats,
    \* one row of the reorder table: the item, and what the row shows for it
    aRowItem, aRow

tVars == <<tPc, tOp, tNet, tResult>>
upVars == <<upFile, upUploading, upResult, upError, upDragover,
            upPc, upRunFile, upCalls, upInitErr>>
rVars == <<rMounted, rReorderList, rLoading, rError, rStores, rSelectedStore,
           rHorizon, rStoresReq, rReqs, rIssued, rLatestOk>>
fVars == <<fMounted, fStores, fSelectedStore, fSkus, fSelectedSku, fHorizon,
           fForecast, fLoading, fRunning, fError,
           fStoresReq, fSkuReqs, fSkuIssued, fSkuLatestOk, fRun>>
sVars == <<sMounted, sFestivals, sLoading, sSeeding, sMessage,
           sFestReqs, sFestIssued, sSeedReq, sSeeds>>
dVars == <<dMounted, dStores, dSummary, dMandiPrices, dLoading,
           dSelectedStore, dStoresReq, dMandiReq, dSumReqs, dSumIssued>>
aVars == <<aPc, aForecast, aHorizon, aLoading, aStores, aChart, aForecastStats,
           aReorderList, aReorderStats, aRowItem, aRow>>
vars == <<tVars, route, left, lastFail, upVars, rVars, fVars, sVars, dVars, aVars>>

---------------------------------------------------------------------------
(* JavaScript values                                                       *)

\* null, as useState(null) holds it
Null == [t |-> "null", s |-> ""]
\* a field the JSON object does not have (reads as undefined)
Absent == [t |-> "absent", s |-> ""]
Str(x) == [t |-> "str", s |-> x]
\* a plain object {} as a field value
Obj == [t |-> "obj", s |-> ""]
\* an empty array [] as a field value
EmptyArr == [t |-> "arr", s |-> ""]

\* what `v || ...` tests: undefined, null and "" are falsy, objects and
\* arrays are truthy
Truthy(v) == \/ v.t \in {"obj", "arr"}
             \/ v.t = "str" /\ v.s # ""

\* new Error(v).message: String(v) of a string is itself, of null "null",
\* of a plain object "[object Object]", of an empty array ""; new
\* Error(undefined) has the message ""
ErrorMessageOf(v) == CASE v.t = "str"    -> v.s
                       [] v.t = "null"   -> "null"
                       [] v.t = "absent" -> ""
                       [] v.t = "arr"    -> ""
                       [] OTHER          -> "[object Object]"

\* String.prototype.includes
Includes(s, sub) ==
    \E i \in 1..(Len(s) - Len(sub) + 1) : SubSeq(s, i, i + Len(sub) - 1) = sub

\* JSON.stringify of one field of an object: an undefined field is left out
StringifyField(name, v) ==
    CASE v.t = "absent" -> ""
      [] v.t = "null"   -> "\"" \o name \o "\":null"
      [] v.t = "str"    -> "\"" \o name \o "\":\"" \o v.s \o "\""
      [] v.t = "arr"    -> "\"" \o name \o "\":[]"
      [] OTHER          -> "\"" \o name \o "\":{}"

\* JSON.stringify of a parsed body
JSONStringify(json) ==
    CASE json.t = "null"  -> "null"
      [] json.t = "array" -> "[]"
      [] json.t = "data"  -> "{\"v\":" \o ToString(json.v) \o "}"
      [] OTHER ->
           LET d == StringifyField("detail", json.detail)
               m == StringifyField("message", json.message)
           IN  "{" \o d \o (IF d # "" /\ m # "" THEN "," ELSE "") \o m \o "}"

---------------------------------------------------------------------------
(* What the network can hand to one fetch()                                *)

\* an error body: a JSON object with optional detail and message
ErrObject(d, m) == [t |-> "object", detail |-> d, message |-> m, v |-> 0]
JNull == [t |-> "null", detail |-> Absent, message |-> Absent, v |-> 0]
JArray == [t |-> "array", detail |-> Absent, message |-> Absent, v |-> 0]
\* a payload with neither field, the object {"v": x}
Data(x) == [t |-> "data", detail |-> Absent, message |-> Absent, v |-> x]

\* a body response.json() rejects, with the SyntaxError's text
Unparseable(e) == [parse |-> FALSE, json |-> JNull, err |-> e]
Parsed(j) == [parse |-> TRUE, json |-> j, err |-> ""]

NoBody == Unparseable("")

\* fetch() rejected: no HTTP response at all
Reject(m) == [kind |-> "reject", msg |-> m, status |-> 0, statusText |-> "",
              body |-> NoBody]
\* fetch() resolved with a Response
Response(code, text, b) == [kind |-> "response", msg |-> "", status |-> code,
                            statusText |-> text, body |-> b]

\* Response.ok
ResponseOk(resp) == resp.status \in 200..299


---------------------------------------------------------------------------
(* Transport Client: services/api.js                                       *)

\* what an awaited api call gives its caller: a value, or a thrown Error
Return(j) == [ok |-> TRUE, data |-> j, msg |-> ""]
Throw(m) == [ok |-> FALSE, data |-> JNull, msg |-> m]

\* let errorDetail = 'Request failed'
DefaultErrorDetail == "Request failed"

\* `Server returned ${response.status}: ${response.statusText}`
ServerReturned(resp) ==
    "Server returned " \o ToString(resp.status) \o ": " \o resp.statusText

\* the try block of handleResponse throws: response.json() rejects, or the
\* body is null and reading error.detail is a TypeError
ErrorBodyThrows(resp) == \/ ~resp.body.parse
                         \/ resp.body.json.t = "null"

\* error.detail || error.message || JSON.stringify(error), as new Error()
\* turns it into a message; an array or a primitive has neither field
ErrorDetailOf(json) ==
    IF Truthy(json.detail) THEN ErrorMessageOf(json.detail)
    ELSE IF Truthy(json.message) THEN ErrorMessageOf(json.message)
    ELSE JSONStringify(json)

MutHandleResponseGeneric(resp) ==
    IF ~ResponseOk(resp)
    THEN Throw(IF ErrorBodyThrows(resp) THEN DefaultErrorDetail
               ELSE ErrorDetailOf(resp.body.json))
    ELSE IF resp.body.parse THEN Return(resp.body.json)
         ELSE Throw(resp.body.err)

handleResponse(resp) ==
    IF ~ResponseOk(resp)
    THEN Throw(IF ErrorBodyThrows(resp) THEN ServerReturned(resp)
               ELSE ErrorDetailOf(resp.body.json))
    ELSE IF resp.body.parse THEN Return(resp.body.json)
         ELSE Throw(resp.body.err)

CannotConnect == "Cannot connect to server. Is the backend running?"
NetworkError ==
    "Network error: Could not reach the server. Please ensure the backend is running."

\* an operation with no try/catch: a rejected fetch propagates as it is
PlainCall(net) ==
    IF net.kind = "reject" THEN Throw(net.msg) ELSE handleResponse(net)

\* `return handleResponse(response)` is not awaited inside the try, so the
\* catch sees only a rejected fetch
MutHealthAwaits(net) ==
    IF net.kind = "reject" \/ ~handleResponse(net).ok
    THEN Throw(CannotConnect) ELSE handleResponse(net)

health(net) ==
    IF net.kind = "reject" THEN Throw(CannotConnect) ELSE handleResponse(net)

initDb(net) == PlainCall(net)

uploadSales(net) ==
    IF net.kind = "reject"
    THEN IF Includes(net.msg, "Failed to fetch")
         THEN Throw(NetworkError) ELSE Throw(net.msg)
    ELSE handleResponse(net)

getStores(net) == PlainCall(net)
getStore(net) == PlainCall(net)
getStoreSKUs(net) == PlainCall(net)
runForecast(net) == PlainCall(net)
getForecast(net) == PlainCall(net)
getReorderList(net) == PlainCall(net)
getReorderSummary(net) == PlainCall(net)
getFestivals(net) == PlainCall(net)
seedFestivals(net) == PlainCall(net)
updateStock(net) == PlainCall(net)
getMandiPrices(net) == PlainCall(net)

Operations == {"health", "initDb", "uploadSales", "getStores", "getStore",
               "getStoreSKUs", "runForecast", "getForecast", "getReorderList",
               "getReorderSummary", "getFestivals", "seedFestivals",
               "updateStock", "getMandiPrices"}

\* the api object: one operation on what the network hands its fetch
api(op, net) ==
    CASE op = "health"            -> health(net)
      [] op = "initDb"            -> initDb(net)
      [] op = "uploadSales"       -> uploadSales(net)
      [] op = "getStores"         -> getStores(net)
      [] op = "getStore"          -> getStore(net)
      [] op = "getStoreSKUs"      -> getStoreSKUs(net)
      [] op = "runForecast"       -> runForecast(net)
      [] op = "getForecast"       -> getForecast(net)
      [] op = "getReorderList"    -> getReorderList(net)
      [] op = "getReorderSummary" -> getReorderSummary(net)
      [] op = "getFestivals"      -> getFestivals(net)
      [] op = "seedFestivals"     -> seedFestivals(net)
      [] op = "updateStock"       -> updateStock(net)
      [] OTHER                    -> getMandiPrices(net)

---------------------------------------------------------------------------
(* Inputs of the Transport Client harness                                  *)

\* the TypeError text of a rejected fetch is the browser's own
\* (Chromium, Firefox, WebKit)
FetchRejectMessages == {"Failed to fetch",
                        "NetworkError when attempting to fetch resource.",
                        "Load failed"}

\* the SyntaxError text of response.json() on a body that is not JSON
JsonSyntaxMessages == {"Unexpected token < in JSON at position 0"}

FieldValues == {Absent, Null, Str(""), Str("boom"), Str("denied"), Obj,
                EmptyArr}

Statuses == {200, 404, 500}

\* the reason phrase; HTTP/2 responses carry none
ReasonPhrases(code) ==
    {"", CASE code = 200 -> "OK"
           [] code = 404 -> "Not Found"
           [] OTHER      -> "Internal Server Error"}

Bodies == {Unparseable(e) : e \in JsonSyntaxMessages}
          \cup {Parsed(JNull), Parsed(JArray), Parsed(Data(1))}
          \cup {Parsed(ErrObject(d, m)) : d \in FieldValues, m \in FieldValues}

Responses == UNION {{Response(c, t, b) : t \in ReasonPhrases(c), b \in Bodies}
                    : c \in Statuses}

NetOutcomes == {Reject(m) : m \in FetchRejectMessages} \cup Responses

NoResult == [ok |-> FALSE, data |-> JNull, msg |-> ""]

TInit == /\ tPc = "idle"
         /\ tOp = "health"
         /\ tNet = Reject("")
         /\ tResult = NoResult

\* one call of one operation, with what the network hands it
TCall(op, net) ==
    /\ tPc = "idle"
    /\ UNCHANGED <<route, left, lastFail, upVars, rVars, fVars, sVars, dVars,
                   aVars>>
    /\ tPc' = "done"
    /\ tOp' = op
    /\ tNet' = net
    /\ tResult' = api(op, net)

---------------------------------------------------------------------------
(* What the backend can answer a page                                      *)

\* failures a page's call can meet: no connection (two browsers' texts),
\* an HTTP error with a detail, one with no JSON body, one whose detail is
\* an empty array
PageFailures ==
    {Reject("Failed to fetch"),
     Reject("Load failed"),
     Response(500, "Internal Server Error", Parsed(ErrObject(Str("boom"), Absent))),
     Response(404, "Not Found", Unparseable("Unexpected token < in JSON at position 0")),
     Response(400, "Bad Request", Parsed(ErrObject(EmptyArr, Absent)))}

\* the two failure classes, one outcome each
SomeFailures ==
    {Reject("Failed to fetch"),
     Response(500, "Internal Server Error", Parsed(ErrObject(Str("boom"), Absent)))}

Success(x) == Response(200, "OK", Parsed(Data(x)))

\* useState(null) and a held error text
NoError == Null

\* a step of one page leaves the rest of the application as it is
UploadFrame ==
    UNCHANGED <<tVars, route, left, rVars, fVars, sVars, dVars, aVars>>
ReorderFrame ==
    UNCHANGED <<tVars, route, left, upVars, fVars, sVars, dVars, aVars>>
ForecastFrame ==
    UNCHANGED <<tVars, route, left, upVars, rVars, sVars, dVars, aVars>>
SettingsFrame ==
    UNCHANGED <<tVars, route, left, upVars, rVars, fVars, dVars, aVars>>
DashboardFrame ==
    UNCHANGED <<tVars, route, left, upVars, rVars, fVars, sVars, aVars>>

\* no throw was handled by the last step
NoFail == [call |-> "", msg |-> ""]
Failed(c, m) == [call |-> c, msg |-> m]

---------------------------------------------------------------------------
(* UploadPage                                                              *)

\* no File: useState(null), or files[0] of an empty FileList
NoFile == ""
\* names of the files the user can pick or drop
Files == {"sales.csv", "stock.csv", "notes.txt"}

\* String.prototype.endsWith
EndsWith(s, suffix) ==
    /\ Len(s) >= Len(suffix)
    /\ SubSeq(s, Len(s) - Len(suffix) + 1, Len(s)) = suffix

\* {success, rows_processed, store_id} of /upload-sales
UploadAnswers == {Success(1)}

UploadInit ==
    /\ upFile = NoFile
    /\ upUploading = FALSE
    /\ upResult = JNull
    /\ upError = NoError
    /\ upDragover = FALSE
    /\ upPc = "idle"
    /\ upRunFile = NoFile
    /\ upCalls = <<>>
    /\ upInitErr = NoError

MutFileSelectedAnyName(selectedFile) ==
    IF selectedFile # NoFile
    THEN /\ upFile' = selectedFile
         /\ upResult' = JNull
         /\ upError' = NoError
    ELSE /\ upError' = Str("Please select a CSV file")
         /\ UNCHANGED <<upFile, upResult>>

\* handleFileSelect, on the state it writes
FileSelected(selectedFile) ==
    IF selectedFile # NoFile /\ EndsWith(selectedFile, ".csv")
    THEN /\ upFile' = selectedFile
         /\ upResult' = JNull
         /\ upError' = NoError
    ELSE /\ upError' = Str("Please select a CSV file")
         /\ UNCHANGED <<upFile, upResult>>

\* the file input's onChange
handleFileSelect(selectedFile) ==
    /\ route = "upload"
    /\ UploadFrame
    /\ FileSelected(selectedFile)
    /\ lastFail' = NoFail
    /\ UNCHANGED <<upUploading, upDragover, upPc, upRunFile, upCalls, upInitErr>>

handleDrop(droppedFile) ==
    /\ route = "upload"
    /\ UploadFrame
    /\ upDragover' = FALSE
    /\ FileSelected(droppedFile)
    /\ lastFail' = NoFail
    /\ UNCHANGED <<upUploading, upPc, upRunFile, upCalls, upInitErr>>

handleDragOver ==
    /\ route = "upload"
    /\ UploadFrame
    /\ upDragover' = TRUE
    /\ lastFail' = NoFail
    /\ UNCHANGED <<upFile, upUploading, upResult, upError,
                   upPc, upRunFile, upCalls, upInitErr>>

handleDragLeave ==
    /\ route = "upload"
    /\ UploadFrame
    /\ upDragover' = FALSE
    /\ lastFail' = NoFail
    /\ UNCHANGED <<upFile, upUploading, upResult, upError,
                   upPc, upRunFile, upCalls, upInitErr>>

\* the Start Upload button: disabled={!file || uploading}
StartUploadEnabled == upFile # NoFile /\ ~upUploading

\* handleUpload up to its first await: api.initDb() is issued
handleUpload ==
    /\ route = "upload"
    /\ UploadFrame
    /\ StartUploadEnabled
    /\ upFile # NoFile
    /\ upUploading' = TRUE
    /\ upError' = NoError
    /\ upResult' = JNull
    /\ upPc' = "init"
    /\ upRunFile' = upFile
    /\ upCalls' = <<"initDb">>
    /\ upInitErr' = NoError
    /\ lastFail' = NoFail
    /\ UNCHANGED <<upFile, upDragover>>

MutInitFailureUploadsAnyway(net) ==
    /\ route = "upload"
    /\ UploadFrame
    /\ upPc = "init"
    /\ LET r == initDb(net)
       IN  /\ upPc' = "upload"
           /\ upCalls' = Append(upCalls, "uploadSales")
           /\ upInitErr' = IF r.ok THEN upInitErr ELSE Str(r.msg)
           /\ lastFail' = IF r.ok THEN NoFail ELSE Failed("initDb", r.msg)
           /\ UNCHANGED <<upError, upUploading>>
    /\ UNCHANGED <<upFile, upResult, upDragover, upRunFile>>

\* handleUpload resumes after await api.initDb(): on success it issues
\* api.uploadSales(file), on a throw it runs catch and finally
handleUploadInitDone(net) ==
    /\ route = "upload"
    /\ UploadFrame
    /\ upPc = "init"
    /\ LET r == initDb(net)
       IN  IF r.ok
           THEN /\ upPc' = "upload"
                /\ upCalls' = Append(upCalls, "uploadSales")
                /\ lastFail' = NoFail
                /\ UNCHANGED <<upError, upUploading, upInitErr>>
           ELSE /\ upError' = Str(r.msg)
                /\ upUploading' = FALSE
                /\ upPc' = "idle"
                /\ upInitErr' = Str(r.msg)
                /\ lastFail' = Failed("initDb", r.msg)
                /\ UNCHANGED upCalls
    /\ UNCHANGED <<upFile, upResult, upDragover, upRunFile>>

\* handleUpload resumes after await api.uploadSales(file)
handleUploadSalesDone(net) ==
    /\ route = "upload"
    /\ UploadFrame
    /\ upPc = "upload"
    /\ LET r == uploadSales(net)
       IN  IF r.ok
           THEN /\ upResult' = r.data
                /\ upFile' = NoFile
                /\ lastFail' = NoFail
                /\ UNCHANGED upError
           ELSE /\ upError' = Str(r.msg)
                /\ lastFail' = Failed("uploadSales", r.msg)
                /\ UNCHANGED <<upResult, upFile>>
    /\ upUploading' = FALSE
    /\ upPc' = "idle"
    /\ UNCHANGED <<upDragover, upRunFile, upCalls, upInitErr>>

NextUpload ==
    \/ \E f \in Files \cup {NoFile} : handleFileSelect(f)
    \/ \E f \in Files \cup {NoFile} : handleDrop(f)
    \/ handleDragOver
    \/ handleDragLeave
    \/ handleUpload
    \/ \E net \in PageFailures \cup {Success(0)} : handleUploadInitDone(net)
    \/ \E net \in PageFailures \cup UploadAnswers : handleUploadSalesDone(net)

---------------------------------------------------------------------------
(* Stores and horizons, shared by ReorderPage and ForecastPage             *)

\* useState(''): no store selected
NoStore == ""

\* what GET /stores can answer: the store ids, in the backend's order
StoreLists == {<<>>, <<"s1">>, <<"s1", "s2">>}

\* the <option> values of the horizon selector
Horizons == {7, 14, 30}

\* the option the user picks in place of the default
HorizonChoices == {30}

\* useState(7)
DefaultHorizon == 7

\* the store ids of a store list
StoreIds(list) == {list[i] : i \in 1..Len(list)}

---------------------------------------------------------------------------
(* ReorderPage                                                             *)

\* how many getReorderList calls one visit of the page may issue
MaxReorderRequests == 2

\* useState(null); a held list names the request it answers and has a
\* number of items
NoReorderList == [req |-> 0, store |-> NoStore, horizon |-> 0, items |-> 0]

\* how many items the backend recommends to reorder for a store
ReorderItemsOf(store) == IF store = "s1" THEN 2 ELSE 0

\* what GET /get-reorder-list answers request q
ReorderAnswer(q) == [req |-> q.id, store |-> q.store, horizon |-> q.horizon,
                     items |-> ReorderItemsOf(q.store)]

ReorderInit ==
    /\ rMounted = FALSE
    /\ rReorderList = NoReorderList
    /\ rLoading = TRUE
    /\ rError = NoError
    /\ rStores = <<>>
    /\ rSelectedStore = NoStore
    /\ rHorizon = DefaultHorizon
    /\ rStoresReq = "none"
    /\ rReqs = {}
    /\ rIssued = 0
    /\ rLatestOk = FALSE

\* the early return `if (!stores.length && !loading)` shows "No Stores
\* Found" in place of everything else
ReorderNoStoresShown == Len(rStores) = 0 /\ ~rLoading

\* the selectors and the Refresh button are rendered
ReorderControlsShown == rMounted /\ ~ReorderNoStoresShown

\* {error && <alert>}
ReorderErrorShown == ~ReorderNoStoresShown /\ Truthy(rError)

\* {loading && <spinner>}
ReorderSpinnerShown == ~ReorderNoStoresShown /\ rLoading

\* {!loading && reorderList && reorderList.items.length > 0 && <table>}
ReorderTableShown ==
    /\ ~ReorderNoStoresShown
    /\ ~rLoading
    /\ rReorderList # NoReorderList
    /\ rReorderList.items > 0

\* {!loading && reorderList && reorderList.items.length === 0 && ...}: "All
\* Stocked Up!"
ReorderAllStockedShown ==
    /\ ~ReorderNoStoresShown
    /\ ~rLoading
    /\ rReorderList # NoReorderList
    /\ rReorderList.items = 0

\* loadReorderList up to its await, for the store and horizon of the render
\* it closed over: api.getReorderList(selectedStore, horizon, true) is issued
loadReorderList(store, horizon) ==
    /\ rIssued < MaxReorderRequests
    /\ rLoading' = TRUE
    /\ rError' = NoError
    /\ rIssued' = rIssued + 1
    /\ rReqs' = rReqs \cup {[id |-> rIssued + 1, store |-> store,
                             horizon |-> horizon]}
    /\ rLatestOk' = FALSE

\* `if (selectedStore)` of the effect on [selectedStore, horizon]
ReorderEffectGuard(store) == store # NoStore

\* the effect on [selectedStore, horizon], run after a render in which one of
\* them changed (and after the first render)
ReorderEffect(store, horizon) ==
    IF ReorderEffectGuard(store)
    THEN loadReorderList(store, horizon)
    ELSE UNCHANGED <<rLoading, rError, rIssued, rReqs, rLatestOk>>

\* first render: both effects run; loadStores issues api.getStores()
ReorderMount ==
    /\ route = "reorder"
    /\ ReorderFrame
    /\ ~rMounted
    /\ rMounted' = TRUE
    /\ rStoresReq' = "pending"
    /\ ReorderEffect(rSelectedStore, rHorizon)
    /\ lastFail' = NoFail
    /\ UNCHANGED <<rReorderList, rStores, rSelectedStore, rHorizon>>

\* loadStores resumes after await api.getStores()
loadStoresDone(net, data) ==
    /\ route = "reorder"
    /\ ReorderFrame
    /\ rStoresReq = "pending"
    /\ rStoresReq' = "done"
    /\ LET r == getStores(net)
       IN  IF r.ok
           THEN /\ rStores' = data
                /\ lastFail' = NoFail
                /\ IF Len(data) > 0
                   THEN /\ rSelectedStore' = data[1]
                        /\ IF data[1] # rSelectedStore
                           THEN ReorderEffect(data[1], rHorizon)
                           ELSE UNCHANGED <<rLoading, rError, rIssued, rReqs,
                                            rLatestOk>>
                   ELSE UNCHANGED <<rSelectedStore, rLoading, rError,
                                    rIssued, rReqs, rLatestOk>>
           ELSE /\ rError' = Str("Failed to load stores. Make sure the backend is running.")
                /\ lastFail' = Failed("getStores", r.msg)
                /\ UNCHANGED <<rStores, rSelectedStore, rLoading, rIssued, rReqs,
                               rLatestOk>>
    /\ UNCHANGED <<rMounted, rReorderList, rHorizon>>

\* the store selector's onChange
ReorderSelectStore(s) ==
    /\ route = "reorder"
    /\ ReorderFrame
    /\ ReorderControlsShown
    /\ s \in StoreIds(rStores)
    /\ s # rSelectedStore
    /\ rSelectedStore' = s
    /\ ReorderEffect(s, rHorizon)
    /\ lastFail' = NoFail
    /\ UNCHANGED <<rMounted, rReorderList, rStores, rHorizon, rStoresReq>>

\* the horizon selector's onChange
ReorderSelectHorizon(h) ==
    /\ route = "reorder"
    /\ ReorderFrame
    /\ ReorderControlsShown
    /\ h # rHorizon
    /\ rHorizon' = h
    /\ ReorderEffect(rSelectedStore, h)
    /\ lastFail' = NoFail
    /\ UNCHANGED <<rMounted, rReorderList, rStores, rSelectedStore,
                   rStoresReq>>

\* the Refresh button: onClick={loadReorderList}
ReorderRefresh ==
    /\ route = "reorder"
    /\ ReorderFrame
    /\ ReorderControlsShown
    /\ loadReorderList(rSelectedStore, rHorizon)
    /\ lastFail' = NoFail
    /\ UNCHANGED <<rMounted, rReorderList, rStores, rSelectedStore, rHorizon,
                   rStoresReq>>

MutReorderListRetries(q, net) ==
    /\ route = "reorder"
    /\ ReorderFrame
    /\ q \in rReqs
    /\ LET r == getReorderList(net)
       IN  IF r.ok
           THEN /\ rReorderList' = ReorderAnswer(q)
                /\ rLatestOk' = (rLatestOk \/ q.id = rIssued)
                /\ lastFail' = NoFail
                /\ rReqs' = rReqs \ {q}
                /\ UNCHANGED <<rError, rIssued>>
           ELSE /\ rError' = Str(r.msg)
                /\ lastFail' = Failed("getReorderList", r.msg)
                /\ IF rIssued < MaxReorderRequests
                   THEN /\ rIssued' = rIssued + 1
                        /\ rReqs' = (rReqs \ {q}) \cup
                                      {[q EXCEPT !.id = rIssued + 1]}
                   ELSE /\ rReqs' = rReqs \ {q}
                        /\ UNCHANGED rIssued
                /\ UNCHANGED <<rReorderList, rLatestOk>>
    /\ rLoading' = FALSE
    /\ UNCHANGED <<rMounted, rStores, rSelectedStore, rHorizon, rStoresReq>>

\* loadReorderList resumes after await api.getReorderList(...), request q
loadReorderListDone(q, net) ==
    /\ route = "reorder"
    /\ ReorderFrame
    /\ q \in rReqs
    /\ rReqs' = rReqs \ {q}
    /\ LET r == getReorderList(net)
       IN  IF r.ok
           THEN /\ rReorderList' = ReorderAnswer(q)
                /\ rLatestOk' = (rLatestOk \/ q.id = rIssued)
                /\ lastFail' = NoFail
                /\ UNCHANGED rError
           ELSE /\ rError' = Str(r.msg)
                /\ lastFail' = Failed("getReorderList", r.msg)
                /\ UNCHANGED <<rReorderList, rLatestOk>>
    /\ rLoading' = FALSE
    /\ UNCHANGED <<rMounted, rStores, rSelectedStore, rHorizon, rStoresReq, rIssued>>

NextReorder ==
    \/ ReorderMount
    \/ \E net \in SomeFailures \cup {Success(0)} :
         \E data \in StoreLists : loadStoresDone(net, data)
    \/ \E s \in {"s1", "s2"} : ReorderSelectStore(s)
    \/ \E h \in HorizonChoices : ReorderSelectHorizon(h)
    \/ ReorderRefresh
    \/ \E q \in rReqs :
         \E net \in SomeFailures \cup {Success(0)} : loadReorderListDone(q, net)

---------------------------------------------------------------------------
(* ForecastPage                                                            *)

\* how many getStoreSKUs calls one visit of the page may issue
MaxSkuRequests == 2

\* useState(''): "All Products"
NoSku == ""

\* the SKU ids GET /stores/{id}/skus lists for a store
SkusOf(store) == CASE store = "s1" -> <<"a1">>
                   [] store = "s2" -> <<"b1">>
                   [] OTHER        -> <<>>

\* what GET /stores/{id}/skus can answer request q: the store's SKUs, or
\* none when no sales were uploaded for it; the answer names its store
SkuAnswers(q) == {[store |-> q.store, list |-> l]
                  : l \in {<<>>, SkusOf(q.store)}}

\* useState([])
NoSkus == [store |-> NoStore, list |-> <<>>]

\* useState(null); a held forecast names the store and the horizon it was
\* fetched for
NoForecast == [held |-> FALSE, store |-> NoStore, horizon |-> 0]

\* handleRunForecast is not running
NotRunning == [pc |-> "idle", store |-> NoStore, horizon |-> 0, sku |-> NoSku]

ForecastInit ==
    /\ fMounted = FALSE
    /\ fStores = <<>>
    /\ fSelectedStore = NoStore
    /\ fSkus = NoSkus
    /\ fSelectedSku = NoSku
    /\ fHorizon = DefaultHorizon
    /\ fForecast = NoForecast
    /\ fLoading = FALSE
    /\ fRunning = FALSE
    /\ fError = NoError
    /\ fStoresReq = "none"
    /\ fSkuReqs = {}
    /\ fSkuIssued = 0
    /\ fSkuLatestOk = FALSE
    /\ fRun = NotRunning

\* loadSkus up to its await: api.getStoreSKUs(selectedStore) is issued
loadSkus(store) ==
    /\ fSkuIssued < MaxSkuRequests
    /\ fSkuIssued' = fSkuIssued + 1
    /\ fSkuReqs' = fSkuReqs \cup {[id |-> fSkuIssued + 1, store |-> store]}
    /\ fSkuLatestOk' = FALSE

MutForecastEffectUnguarded(store) == TRUE

\* `if (selectedStore)` of the effect on [selectedStore]
ForecastEffectGuard(store) == store # NoStore

\* the effect on [selectedStore], run after a render in which it changed
\* (and after the first render)
ForecastEffect(store) ==
    IF ForecastEffectGuard(store)
    THEN loadSkus(store)
    ELSE UNCHANGED <<fSkuIssued, fSkuReqs, fSkuLatestOk>>

\* first render: both effects run; loadStores issues api.getStores()
ForecastMount ==
    /\ route = "forecast"
    /\ ForecastFrame
    /\ ~fMounted
    /\ fMounted' = TRUE
    /\ fStoresReq' = "pending"
    /\ ForecastEffect(fSelectedStore)
    /\ lastFail' = NoFail
    /\ UNCHANGED <<fStores, fSelectedStore, fSkus, fSelectedSku, fHorizon,
                   fForecast, fLoading, fRunning, fError, fRun>>

\* loadStores resumes after await api.getStores()
ForecastLoadStoresDone(net, data) ==
    /\ route = "forecast"
    /\ ForecastFrame
    /\ fStoresReq = "pending"
    /\ fStoresReq' = "done"
    /\ LET r == getStores(net)
       IN  IF r.ok
           THEN /\ fStores' = data
                /\ lastFail' = NoFail
                /\ UNCHANGED fError
                /\ IF Len(data) > 0
                   THEN /\ fSelectedStore' = data[1]
                        /\ IF data[1] # fSelectedStore
                           THEN ForecastEffect(data[1])
                           ELSE UNCHANGED <<fSkuIssued, fSkuReqs, fSkuLatestOk>>
                   ELSE UNCHANGED <<fSelectedStore, fSkuIssued, fSkuReqs,
                                    fSkuLatestOk>>
           ELSE /\ fError' = Str("Failed to load stores")
                /\ lastFail' = Failed("getStores", r.msg)
                /\ UNCHANGED <<fStores, fSelectedStore, fSkuIssued, fSkuReqs,
                               fSkuLatestOk>>
    /\ UNCHANGED <<fMounted, fSkus, fSelectedSku, fHorizon, fForecast,
                   fLoading, fRunning, fRun>>

\* the store selector's onChange
ForecastSelectStore(s) ==
    /\ route = "forecast"
    /\ ForecastFrame
    /\ fMounted
    /\ s \in StoreIds(fStores)
    /\ s # fSelectedStore
    /\ fSelectedStore' = s
    /\ ForecastEffect(s)
    /\ lastFail' = NoFail
    /\ UNCHANGED <<fMounted, fStores, fSkus, fSelectedSku, fHorizon, fForecast,
                   fLoading, fRunning, fError, fStoresReq, fRun>>

\* loadSkus resumes after await api.getStoreSKUs(...), request q
loadSkusDone(q, net, data) ==
    /\ route = "forecast"
    /\ ForecastFrame
    /\ q \in fSkuReqs
    /\ fSkuReqs' = fSkuReqs \ {q}
    /\ LET r == getStoreSKUs(net)
       IN  IF r.ok
           THEN /\ fSkus' = data
                /\ fSelectedSku' = IF Len(data.list) > 0 THEN data.list[1]
                                   ELSE fSelectedSku
                /\ fSkuLatestOk' = (fSkuLatestOk \/ q.id = fSkuIssued)
                /\ lastFail' = NoFail
           ELSE /\ lastFail' = Failed("getStoreSKUs", r.msg)
                /\ UNCHANGED <<fSkus, fSelectedSku, fSkuLatestOk>>
    /\ UNCHANGED <<fMounted, fStores, fSelectedStore, fHorizon, fForecast,
                   fLoading, fRunning, fError, fStoresReq, fSkuIssued, fRun>>

\* the SKU selector's onChange: "All Products" or one of the listed SKUs
ForecastSelectSku(k) ==
    /\ route = "forecast"
    /\ ForecastFrame
    /\ fMounted
    /\ k \in {NoSku} \cup {fSkus.list[i] : i \in 1..Len(fSkus.list)}
    /\ k # fSelectedSku
    /\ fSelectedSku' = k
    /\ lastFail' = NoFail
    /\ UNCHANGED <<fMounted, fStores, fSelectedStore, fSkus, fHorizon, fForecast,
                   fLoading, fRunning, fError, fStoresReq, fSkuReqs, fSkuIssued,
                   fSkuLatestOk, fRun>>

\* the horizon selector's onChange
ForecastSelectHorizon(h) ==
    /\ route = "forecast"
    /\ ForecastFrame
    /\ fMounted
    /\ h # fHorizon
    /\ fHorizon' = h
    /\ lastFail' = NoFail
    /\ UNCHANGED <<fMounted, fStores, fSelectedStore, fSkus, fSelectedSku,
                   fForecast, fLoading, fRunning, fError, fStoresReq, fSkuReqs,
                   fSkuIssued, fSkuLatestOk, fRun>>

\* the Run Forecast button: disabled={running || !selectedStore}
RunForecastEnabled == ~fRunning /\ fSelectedStore # NoStore

\* handleRunForecast up to its first await: api.runForecast(selectedStore,
\* horizon) is issued; the handler keeps the render's store, horizon and SKU
handleRunForecast ==
    /\ route = "forecast"
    /\ ForecastFrame
    /\ fMounted
    /\ RunForecastEnabled
    /\ fSelectedStore # NoStore
    /\ fRunning' = TRUE
    /\ fError' = NoError
    /\ fRun' = [pc |-> "run", store |-> fSelectedStore, horizon |-> fHorizon,
                sku |-> fSelectedSku]
    /\ lastFail' = NoFail
    /\ UNCHANGED <<fMounted, fStores, fSelectedStore, fSkus, fSelectedSku,
                   fHorizon, fForecast, fLoading, fStoresReq, fSkuReqs,
                   fSkuIssued, fSkuLatestOk>>

MutRunForecastReadsSelection(net) ==
    /\ route = "forecast"
    /\ ForecastFrame
    /\ fRun.pc = "run"
    /\ LET r == runForecast(net)
       IN  IF r.ok
           THEN /\ fLoading' = TRUE
                /\ fError' = NoError
                /\ fRun' = [pc |-> "get", store |-> fSelectedStore,
                            horizon |-> fHorizon, sku |-> fSelectedSku]
                /\ lastFail' = NoFail
                /\ UNCHANGED fRunning
           ELSE /\ fError' = Str(r.msg)
                /\ fRunning' = FALSE
                /\ fRun' = NotRunning
                /\ lastFail' = Failed("runForecast", r.msg)
                /\ UNCHANGED fLoading
    /\ UNCHANGED <<fMounted, fStores, fSelectedStore, fSkus, fSelectedSku,
                   fHorizon, fForecast, fStoresReq, fSkuReqs, fSkuIssued,
                   fSkuLatestOk>>

\* handleRunForecast resumes after await api.runForecast(...): on success
\* loadForecast runs up to its await and api.getForecast(selectedStore,
\* horizon, selectedSku || null) is issued; on a throw, catch and finally
handleRunForecastDone(net) ==
    /\ route = "forecast"
    /\ ForecastFrame
    /\ fRun.pc = "run"
    /\ LET r == runForecast(net)
       IN  IF r.ok
           THEN IF fRun.store # NoStore
                THEN /\ fLoading' = TRUE
                     /\ fError' = NoError
                     /\ fRun' = [fRun EXCEPT !.pc = "get"]
                     /\ lastFail' = NoFail
                     /\ UNCHANGED fRunning
                ELSE /\ fRunning' = FALSE
                     /\ fRun' = NotRunning
                     /\ lastFail' = NoFail
                     /\ UNCHANGED <<fLoading, fError>>
           ELSE /\ fError' = Str(r.msg)
                /\ fRunning' = FALSE
                /\ fRun' = NotRunning
                /\ lastFail' = Failed("runForecast", r.msg)
                /\ UNCHANGED fLoading
    /\ UNCHANGED <<fMounted, fStores, fSelectedStore, fSkus, fSelectedSku,
                   fHorizon, fForecast, fStoresReq, fSkuReqs, fSkuIssued,
                   fSkuLatestOk>>

\* loadForecast resumes after await api.getForecast(...), then
\* handleRunForecast runs its finally
loadForecastDone(net) ==
    /\ route = "forecast"
    /\ ForecastFrame
    /\ fRun.pc = "get"
    /\ LET r == getForecast(net)
       IN  IF r.ok
           THEN /\ fForecast' = [held |-> TRUE, store |-> fRun.store,
                                 horizon |-> fRun.horizon]
                /\ lastFail' = NoFail
                /\ UNCHANGED fError
           ELSE /\ fError' = Str(r.msg)
                /\ lastFail' = Failed("getForecast", r.msg)
                /\ UNCHANGED fForecast
    /\ fLoading' = FALSE
    /\ fRunning' = FALSE
    /\ fRun' = NotRunning
    /\ UNCHANGED <<fMounted, fStores, fSelectedStore, fSkus, fSelectedSku,
                   fHorizon, fStoresReq, fSkuReqs, fSkuIssued, fSkuLatestOk>>

NextForecast ==
    \/ ForecastMount
    \/ \E net \in SomeFailures \cup {Success(0)} :
         \E data \in StoreLists : ForecastLoadStoresDone(net, data)
    \/ \E s \in {"s1", "s2"} : ForecastSelectStore(s)
    \/ \E q \in fSkuReqs :
         \E net \in {Response(500, "Internal Server Error",
                               Parsed(ErrObject(Str("boom"), Absent))),
                      Success(0)} :
           \E data \in SkuAnswers(q) : loadSkusDone(q, net, data)
    \/ \E k \in {NoSku, "a1", "b1"} : ForecastSelectSku(k)
    \/ \E h \in HorizonChoices : ForecastSelectHorizon(h)
    \/ handleRunForecast
    \/ \E net \in SomeFailures \cup {Success(0)} : handleRunForecastDone(net)
    \/ \E net \in SomeFailures \cup {Success(0)} : loadForecastDone(net)

---------------------------------------------------------------------------
(* SettingsPage                                                            *)

\* how many times one visit of the page clicks the synchronize button
MaxSeeds == 2

\* useState(null) message, and the two messages seedFestivals sets
NoMessage == [type |-> "", text |-> ""]
Message(type, text) == [type |-> type, text |-> text]

\* {success, festivals_added, year} of POST /festivals/seed?year=2026
SeedAnswers == {[success |-> TRUE, festivals_added |-> 12, year |-> 2026],
                [success |-> FALSE, festivals_added |-> 0, year |-> 2026]}

SettingsInit ==
    /\ sMounted = FALSE
    /\ sFestivals = 0
    /\ sLoading = TRUE
    /\ sSeeding = FALSE
    /\ sMessage = NoMessage
    /\ sFestReqs = {}
    /\ sFestIssued = 0
    /\ sSeedReq = "none"
    /\ sSeeds = 0

\* loadFestivals up to its await: api.getFestivals() is issued
loadFestivals ==
    /\ sLoading' = TRUE
    /\ sFestIssued' = sFestIssued + 1
    /\ sFestReqs' = sFestReqs \cup {sFestIssued + 1}

\* first render: the effect runs loadFestivals
SettingsMount ==
    /\ route = "settings"
    /\ SettingsFrame
    /\ ~sMounted
    /\ sMounted' = TRUE
    /\ loadFestivals
    /\ lastFail' = NoFail
    /\ UNCHANGED <<sFestivals, sSeeding, sMessage, sSeedReq, sSeeds>>

\* loadFestivals resumes after await api.getFestivals(), request q; the
\* list held is named by the request it answers
loadFestivalsDone(q, net) ==
    /\ route = "settings"
    /\ SettingsFrame
    /\ q \in sFestReqs
    /\ sFestReqs' = sFestReqs \ {q}
    /\ LET r == getFestivals(net)
       IN  IF r.ok
           THEN /\ sFestivals' = q
                /\ lastFail' = NoFail
           ELSE /\ lastFail' = Failed("getFestivals", r.msg)
                /\ UNCHANGED sFestivals
    /\ sLoading' = FALSE
    /\ UNCHANGED <<sMounted, sSeeding, sMessage, sFestIssued, sSeedReq, sSeeds>>

\* the synchronize button: disabled={seeding}
SeedEnabled == sMounted /\ ~sSeeding

\* seedFestivals up to its await: api.seedFestivals(2026) is issued
seedFestivalsClick ==
    /\ route = "settings"
    /\ SettingsFrame
    /\ SeedEnabled
    /\ sSeeds < MaxSeeds
    /\ sSeeds' = sSeeds + 1
    /\ sSeeding' = TRUE
    /\ sMessage' = NoMessage
    /\ sSeedReq' = "pending"
    /\ lastFail' = NoFail
    /\ UNCHANGED <<sMounted, sFestivals, sLoading, sFestReqs, sFestIssued>>

\* seedFestivals resumes after await api.seedFestivals(2026)
seedFestivalsDone(net, data) ==
    /\ route = "settings"
    /\ SettingsFrame
    /\ sSeedReq = "pending"
    /\ sSeedReq' = "none"
    /\ LET r == seedFestivals(net)
       IN  IF r.ok
           THEN /\ lastFail' = NoFail
                /\ IF data.success
                   THEN /\ sMessage' = Message("success",
                              "Added " \o ToString(data.festivals_added)
                              \o " festivals for " \o ToString(data.year))
                        /\ loadFestivals
                   ELSE UNCHANGED <<sMessage, sLoading, sFestIssued, sFestReqs>>
           ELSE /\ sMessage' = Message("error",
                      "Failed to synchronize festival configuration")
                /\ lastFail' = Failed("seedFestivals", r.msg)
                /\ UNCHANGED <<sLoading, sFestIssued, sFestReqs>>
    /\ sSeeding' = FALSE
    /\ UNCHANGED <<sMounted, sFestivals, sSeeds>>

NextSettings ==
    \/ SettingsMount
    \/ \E q \in sFestReqs :
         \E net \in SomeFailures \cup {Success(0)} : loadFestivalsDone(q, net)
    \/ seedFestivalsClick
    \/ \E net \in SomeFailures \cup {Success(0)} :
         \E data \in SeedAnswers : seedFestivalsDone(net, data)

---------------------------------------------------------------------------
(* DashboardPage                                                           *)

\* how many getReorderSummary calls one visit of the page may issue
MaxSummaryRequests == 2

\* what GET /mandi-prices can answer: {success, records}
MandiAnswers == {[success |-> TRUE, records |-> <<"wheat", "rice">>],
                 [success |-> TRUE, records |-> <<>>],
                 [success |-> FALSE, records |-> <<"wheat">>]}

\* a call that was not issued, and a call in flight with the outcome the
\* network holds for it (the answer does not depend on when it arrives)
NotIssued(data) == [state |-> "none", net |-> Success(0), data |-> data]
InFlight(net, data) == [state |-> "pending", net |-> net, data |-> data]

\* useState(null); a held summary names the request it answers
NoSummary == [held |-> FALSE, req |-> 0, store |-> NoStore]

DashboardInit ==
    /\ dMounted = FALSE
    /\ dStores = <<>>
    /\ dSummary = NoSummary
    /\ dMandiPrices = <<>>
    /\ dLoading = TRUE
    /\ dSelectedStore = NoStore
    /\ dStoresReq = NotIssued(<<>>)
    /\ dMandiReq = NotIssued([success |-> FALSE, records |-> <<>>])
    /\ dSumReqs = {}
    /\ dSumIssued = 0

\* loadSummary up to its await: api.getReorderSummary(selectedStore)
loadSummary(store) ==
    /\ dSumIssued < MaxSummaryRequests
    /\ dSumIssued' = dSumIssued + 1
    /\ dSumReqs' = dSumReqs \cup {[id |-> dSumIssued + 1, store |-> store]}

\* the effect on [selectedStore]: `if (selectedStore) loadSummary()`
DashboardEffect(store) ==
    IF store # NoStore
    THEN loadSummary(store)
    ELSE UNCHANGED <<dSumIssued, dSumReqs>>

\* first render: the mount effect calls loadData() and loadMandiPrices(),
\* each up to its await, so api.getStores() and api.getMandiPrices() are
\* both in flight; the effect on [selectedStore] runs too
DashboardMount(storesNet, storesData, mandiNet, mandiData) ==
    /\ route = "dashboard"
    /\ DashboardFrame
    /\ ~dMounted
    /\ dMounted' = TRUE
    /\ dStoresReq' = InFlight(storesNet, storesData)
    /\ dMandiReq' = InFlight(mandiNet, mandiData)
    /\ DashboardEffect(dSelectedStore)
    /\ lastFail' = NoFail
    /\ UNCHANGED <<dStores, dSummary, dMandiPrices, dLoading, dSelectedStore>>

\* loadData resumes after await api.getStores()
loadDataDone ==
    /\ route = "dashboard"
    /\ DashboardFrame
    /\ dStoresReq.state = "pending"
    /\ dStoresReq' = [dStoresReq EXCEPT !.state = "done"]
    /\ LET r == getStores(dStoresReq.net)
           storesData == dStoresReq.data
       IN  IF r.ok
           THEN /\ dStores' = storesData
                /\ lastFail' = NoFail
                /\ IF Len(storesData) > 0
                   THEN /\ dSelectedStore' = storesData[1]
                        /\ IF storesData[1] # dSelectedStore
                           THEN DashboardEffect(storesData[1])
                           ELSE UNCHANGED <<dSumIssued, dSumReqs>>
                   ELSE UNCHANGED <<dSelectedStore, dSumIssued, dSumReqs>>
           ELSE /\ lastFail' = Failed("getStores", r.msg)
                /\ UNCHANGED <<dStores, dSelectedStore, dSumIssued, dSumReqs>>
    /\ dLoading' = FALSE
    /\ UNCHANGED <<dMounted, dSummary, dMandiPrices, dMandiReq>>

MutMandiPricesNeedStores ==
    /\ route = "dashboard"
    /\ DashboardFrame
    /\ dMandiReq.state = "pending"
    /\ dMandiReq' = [dMandiReq EXCEPT !.state = "done"]
    /\ LET r == getMandiPrices(dMandiReq.net)
           data == dMandiReq.data
       IN  IF r.ok
           THEN /\ dMandiPrices' = IF data.success /\ Len(dStores) > 0
                                   THEN data.records
                                   ELSE dMandiPrices
                /\ lastFail' = NoFail
           ELSE /\ lastFail' = Failed("getMandiPrices", r.msg)
                /\ UNCHANGED dMandiPrices
    /\ UNCHANGED <<dMounted, dStores, dSummary, dLoading, dSelectedStore,
                   dStoresReq, dSumReqs, dSumIssued>>

\* loadMandiPrices resumes after await api.getMandiPrices()
loadMandiPricesDone ==
    /\ route = "dashboard"
    /\ DashboardFrame
    /\ dMandiReq.state = "pending"
    /\ dMandiReq' = [dMandiReq EXCEPT !.state = "done"]
    /\ LET r == getMandiPrices(dMandiReq.net)
           data == dMandiReq.data
       IN  IF r.ok
           THEN /\ dMandiPrices' = IF data.success THEN data.records
                                   ELSE dMandiPrices
                /\ lastFail' = NoFail
           ELSE /\ lastFail' = Failed("getMandiPrices", r.msg)
                /\ UNCHANGED dMandiPrices
    /\ UNCHANGED <<dMounted, dStores, dSummary, dLoading, dSelectedStore,
                   dStoresReq, dSumReqs, dSumIssued>>

\* the store selector, rendered when not loading and stores is not empty
DashboardSelectStore(s) ==
    /\ route = "dashboard"
    /\ DashboardFrame
    /\ dMounted /\ ~dLoading /\ Len(dStores) # 0
    /\ s \in StoreIds(dStores)
    /\ s # dSelectedStore
    /\ dSelectedStore' = s
    /\ DashboardEffect(s)
    /\ lastFail' = NoFail
    /\ UNCHANGED <<dMounted, dStores, dSummary, dMandiPrices, dLoading,
                   dStoresReq, dMandiReq>>

\* loadSummary resumes after await api.getReorderSummary(...), request q
loadSummaryDone(q, net) ==
    /\ route = "dashboard"
    /\ DashboardFrame
    /\ q \in dSumReqs
    /\ dSumReqs' = dSumReqs \ {q}
    /\ LET r == getReorderSummary(net)
       IN  IF r.ok
           THEN /\ dSummary' = [held |-> TRUE, req |-> q.id, store |-> q.store]
                /\ lastFail' = NoFail
           ELSE /\ lastFail' = Failed("getReorderSummary", r.msg)
                /\ UNCHANGED dSummary
    /\ UNCHANGED <<dMounted, dStores, dMandiPrices, dLoading, dSelectedStore,
                   dStoresReq, dMandiReq, dSumIssued>>

NextDashboard ==
    \/ \E storesNet \in SomeFailures \cup {Success(0)} :
         \E storesData \in StoreLists :
           \E mandiNet \in SomeFailures \cup {Success(0)} :
             \E mandiData \in MandiAnswers :
               DashboardMount(storesNet, storesData, mandiNet, mandiData)
    \/ loadDataDone
    \/ loadMandiPricesDone
    \/ \E s \in {"s1", "s2"} : DashboardSelectStore(s)
    \/ \E q \in dSumReqs :
         \E net \in SomeFailures \cup {Success(0)} : loadSummaryDone(q, net)

---------------------------------------------------------------------------
(* JavaScript numbers and object keys, as the result assemblers use them   *)

\* a number, counted in tenths (predicted_units 1.5 is 15), or one of the
\* three values a division by zero gives
Finite(x) == [k |-> "finite", v |-> x]
PosInfinity == [k |-> "inf", v |-> 0]
NegInfinity == [k |-> "-inf", v |-> 0]
NaN == [k |-> "nan", v |-> 0]

\* Math.round(x) of a number in tenths: the nearest integer, halves up
MathRound(x) == IF x.k = "finite" THEN Finite(((x.v + 5) \div 10) * 10) ELSE x

\* Math.round(total / horizon): total in tenths, horizon a count of days;
\* a zero horizon gives Infinity, -Infinity or NaN, which Math.round keeps
RoundedQuotient(total, horizon) ==
    IF horizon = 0
    THEN IF total > 0 THEN PosInfinity
         ELSE IF total < 0 THEN NegInfinity ELSE NaN
    ELSE Finite(((2 * total + 10 * horizon) \div (20 * horizon)) * 10)

IsDigit(c) == c \in {"0", "1", "2", "3", "4", "5", "6", "7", "8", "9"}

DigitValue(c) == CASE c = "0" -> 0 [] c = "1" -> 1 [] c = "2" -> 2
                   [] c = "3" -> 3 [] c = "4" -> 4 [] c = "5" -> 5
                   [] c = "6" -> 6 [] c = "7" -> 7 [] c = "8" -> 8
                   [] OTHER   -> 9

\* the largest array index, 2^32 - 2
MaxArrayIndex == "4294967294"

RECURSIVE DigitsLeq(_, _)
\* a <= b for two digit texts of the same length
DigitsLeq(a, b) ==
    IF Len(a) = 0 THEN TRUE
    ELSE LET x == DigitValue(SubSeq(a, 1, 1))
             y == DigitValue(SubSeq(b, 1, 1))
         IN  IF x # y THEN x < y
             ELSE DigitsLeq(SubSeq(a, 2, Len(a)), SubSeq(b, 2, Len(b)))

\* a <= b for the canonical decimal texts of two integers
IntegerKeyLeq(a, b) ==
    \/ Len(a) < Len(b)
    \/ Len(a) = Len(b) /\ DigitsLeq(a, b)

\* a property key that is an integer index: the canonical decimal text of
\* an integer (no sign, no leading zero) that is at most 2^32 - 2; such
\* keys are enumerated first, in ascending order
IsIntegerKey(key) ==
    /\ Len(key) >= 1
    /\ \A i \in 1..Len(key) : IsDigit(SubSeq(key, i, i))
    /\ Len(key) > 1 => SubSeq(key, 1, 1) # "0"
    /\ IntegerKeyLeq(key, MaxArrayIndex)

\* the properties every object literal inherits from Object.prototype; all
\* of them are truthy and none has a `dates` property
ObjectPrototypeKeys ==
    {"constructor", "toString", "toLocaleString", "valueOf", "hasOwnProperty",
     "isPrototypeOf", "propertyIsEnumerable", "__proto__",
     "__defineGetter__", "__defineSetter__", "__lookupGetter__",
     "__lookupSetter__"}

\* an object literal used as a map is the sequence of its own entries in
\* creation order; each entry carries its key as id
HasOwn(obj, key) == \E i \in 1..Len(obj) : obj[i].id = key

\* obj[key] is truthy: an own entry (an object) or an inherited property
Has(obj, key) == HasOwn(obj, key) \/ key \in ObjectPrototypeKeys

RECURSIVE AscendingByKey(_)
\* the entries of a set with integer keys, ascending
AscendingByKey(entries) ==
    IF entries = {} THEN <<>>
    ELSE LET least == CHOOSE e \in entries :
                        \A o \in entries : IntegerKeyLeq(e.id, o.id)
         IN  <<least>> \o AscendingByKey(entries \ {least})

\* Object.entries / Object.values order: integer keys ascending, then the
\* other keys in creation order
ObjectValues(obj) ==
    LET NotInteger(e) == ~IsIntegerKey(e.id)
    IN  AscendingByKey({obj[i] : i \in {j \in 1..Len(obj) : IsIntegerKey(obj[j].id)}})
        \o SelectSeq(obj, NotInteger)

---------------------------------------------------------------------------
(* ForecastPage: chart data and stats of the forecast held                 *)

\* useState(null) forecast
NullForecast == [held |-> FALSE, forecasts |-> <<>>, total_predicted |-> 0]

RECURSIVE SumPredictedUnits(_)
SumPredictedUnits(points) ==
    IF Len(points) = 0 THEN 0
    ELSE points[1].predicted_units + SumPredictedUnits(Tail(points))

\* what GET /get-forecast answers: {forecasts, total_predicted}, the total
\* being the sum of predicted_units over the points
GetForecastResponse(points) ==
    [held |-> TRUE, forecasts |-> points,
     total_predicted |-> SumPredictedUnits(points)]

\* skuData[f.sku_id] = {name: f.sku_name, dates: [], values: [], ...}
NewSeries(f) == [id |-> f.sku_id, name |-> f.sku_name, dates |-> <<>>,
                 values |-> <<>>, lower |-> <<>>, upper |-> <<>>]

\* the four push calls on skuData[f.sku_id]
PushPoint(series, f) ==
    [series EXCEPT !.dates = Append(@, f.forecast_date),
                   !.values = Append(@, f.predicted_units),
                   !.lower = Append(@, f.confidence_lower),
                   !.upper = Append(@, f.confidence_upper)]

RECURSIVE GroupBySku(_, _)
\* forecast.forecasts.forEach(f => ...) on skuData: a key the object does
\* not hold (own or inherited) gets a new series; the point is pushed on
\* skuData[f.sku_id], which throws a TypeError when that is an inherited
\* property (its .dates is undefined)
GroupBySku(points, skuData) ==
    IF Len(points) = 0 THEN [ok |-> TRUE, skuData |-> skuData]
    ELSE LET f == points[1]
             created == IF Has(skuData, f.sku_id) THEN skuData
                        ELSE Append(skuData, NewSeries(f))
         IN  IF ~HasOwn(created, f.sku_id)
             THEN [ok |-> FALSE, skuData |-> <<>>]
             ELSE GroupBySku(Tail(points),
                    [i \in 1..Len(created) |->
                       IF created[i].id = f.sku_id
                       THEN PushPoint(created[i], f) ELSE created[i]])

\* the colors array
ChartColors == <<"#3b82f6", "#10b981", "#f59e0b", "#ef4444", "#8b5cf6">>

\* datasets.push({label, data, borderColor, ...}) for each entry of skuData
Datasets(entries) ==
    [i \in 1..Len(entries) |->
       [label |-> entries[i].name, data |-> entries[i].values,
        borderColor |-> ChartColors[((i - 1) % Len(ChartColors)) + 1]]]

\* what getChartData gives: null, {labels, datasets} (with the series it
\* was built from, in Object.entries order), or a thrown TypeError
NullChart == [kind |-> "null", series |-> <<>>, labels |-> <<>>,
              datasets |-> <<>>]
ChartThrows == [kind |-> "throw", series |-> <<>>, labels |-> <<>>,
                datasets |-> <<>>]

MutChartDataEmptyMapping(forecast) ==
    IF ~forecast.held
    THEN NullChart
    ELSE LET g == GroupBySku(forecast.forecasts, <<>>)
         IN  IF ~g.ok THEN ChartThrows
             ELSE LET entries == ObjectValues(g.skuData)
                  IN  [kind |-> "chart", series |-> entries,
                       labels |-> IF Len(entries) > 0 THEN entries[1].dates
                                  ELSE <<>>,
                       datasets |-> Datasets(entries)]

getChartData(forecast) ==
    IF ~forecast.held \/ Len(forecast.forecasts) = 0
    THEN NullChart
    ELSE LET g == GroupBySku(forecast.forecasts, <<>>)
         IN  IF ~g.ok THEN ChartThrows
             ELSE LET entries == ObjectValues(g.skuData)
                  IN  [kind |-> "chart", series |-> entries,
                       labels |-> IF Len(entries) > 0 THEN entries[1].dates
                                  ELSE <<>>,
                       datasets |-> Datasets(entries)]

\* the stat cards: forecast.forecasts.length,
\* Math.round(forecast.total_predicted),
\* Math.round(forecast.total_predicted / horizon)
ForecastPoints(forecast) == Len(forecast.forecasts)
TotalPredictedShown(forecast) == MathRound(Finite(forecast.total_predicted))
AvgDailyDemandShown(forecast, horizon) ==
    RoundedQuotient(forecast.total_predicted, horizon)

\* the stat cards are rendered: {forecast && (...)}
ForecastStats(forecast, horizon) ==
    [shown |-> forecast.held,
     points |-> ForecastPoints(forecast),
     total |-> TotalPredictedShown(forecast),
     avg |-> AvgDailyDemandShown(forecast, horizon)]

\* nothing is rendered: no forecast is held, or the render threw
NoForecastStats == [shown |-> FALSE, points |-> 0, total |-> Finite(0),
                    avg |-> Finite(0)]

\* one render of ForecastPage with a forecast held: chartData is computed
\* first, and a throw in it ends the render before the stats are built
RenderForecastPage(forecast, horizon) ==
    LET chartData == getChartData(forecast)
    IN  [chart |-> chartData,
         stats |-> IF chartData.kind = "throw" \/ ~forecast.held
                   THEN NoForecastStats
                   ELSE ForecastStats(forecast, horizon)]

---------------------------------------------------------------------------
(* ReorderPage: the stats summary of the reorder list held                 *)

\* useState(null) reorderList
NullReorderList == [held |-> FALSE, items |-> <<>>, total_items |-> 0,
                    critical_items |-> 0]

\* items.filter(i => i.urgency === urgency).length
CountUrgency(items, urgency) ==
    Cardinality({i \in 1..Len(items) : items[i].urgency = Str(urgency)})

\* what GET /get-reorder-list answers: {items, total_items, critical_items},
\* the counts being those of the items
GetReorderListResponse(items) ==
    [held |-> TRUE, items |-> items, total_items |-> Len(items),
     critical_items |-> CountUrgency(items, "critical")]

MutHighCountsCritical(reorderList) ==
    Cardinality({i \in 1..Len(reorderList.items) :
                   reorderList.items[i].urgency \in
                       {Str("high"), Str("critical")}})

\* the four stat cards
TotalItemsShown(reorderList) == reorderList.total_items
CriticalShown(reorderList) == reorderList.critical_items
HighShown(reorderList) == CountUrgency(reorderList.items, "high")
MediumShown(reorderList) == CountUrgency(reorderList.items, "medium")

\* {reorderList && (<stats-grid>)}
ReorderStats(reorderList) ==
    [shown |-> reorderList.held,
     total |-> TotalItemsShown(reorderList),
     critical |-> CriticalShown(reorderList),
     high |-> HighShown(reorderList),
     medium |-> MediumShown(reorderList)]

---------------------------------------------------------------------------
(* ReorderPage: the rows of the table                                      *)

\* velocity_change_pct: a number, null, or a field the item does not have
Num(n) == [t |-> "num", v |-> n]
NullNum == [t |-> "null", v |-> 0]
MissingNum == [t |-> "absent", v |-> 0]

\* x > 0 and x < 0: null converts to 0, undefined to NaN
GreaterThanZero(x) == x.t = "num" /\ x.v > 0
LessThanZero(x) == x.t = "num" /\ x.v < 0

\* the property key a value is converted to in badges[urgency]
PropertyKey(v) == CASE v.t = "str"  -> v.s
                    [] v.t = "null" -> "null"
                    [] OTHER        -> "undefined"

\* the own keys of the object literal `badges`
BadgeKeys == {"critical", "high", "medium", "low"}

\* a class name, and the value of an inherited property of Object.prototype
\* (a function or an object, truthy)
ClassName(s) == [kind |-> "string", s |-> s]
InheritedProperty(key) == [kind |-> "inherited", s |-> key]

\* badges[urgency] || 'badge'
getUrgencyBadge(urgency) ==
    LET key == PropertyKey(urgency)
    IN  IF key \in BadgeKeys THEN ClassName("badge badge-" \o key)
        ELSE IF key \in ObjectPrototypeKeys THEN InheritedProperty(key)
        ELSE ClassName("badge")

getVelocityClass(velocity) ==
    IF GreaterThanZero(velocity) THEN "velocity-change velocity-up"
    ELSE IF LessThanZero(velocity) THEN "velocity-change velocity-down"
    ELSE "velocity-change velocity-neutral"

\* the icon of the velocity cell
VelocityIcon(velocity) ==
    IF GreaterThanZero(velocity) THEN "TrendingUp"
    ELSE IF LessThanZero(velocity) THEN "TrendingDown"
    ELSE "Minus"

\* Math.abs(velocity).toFixed(0), of the values the cell is rendered for
AbsToFixed0(velocity) ==
    IF velocity.t = "num"
    THEN ToString(IF velocity.v < 0 THEN -velocity.v ELSE velocity.v)
    ELSE "NaN"

NoVelocityCell == [rendered |-> FALSE, class |-> "", icon |-> "", text |-> ""]

MutVelocityCellForNull(velocity) ==
    [rendered |-> TRUE,
     class |-> getVelocityClass(velocity),
     icon |-> VelocityIcon(velocity),
     text |-> IF velocity.t = "null" THEN "0%"
              ELSE AbsToFixed0(velocity) \o "%"]

\* {item.velocity_change_pct !== null && (<span ...>)}
VelocityCell(velocity) ==
    IF velocity.t # "null"
    THEN [rendered |-> TRUE,
          class |-> getVelocityClass(velocity),
          icon |-> VelocityIcon(velocity),
          text |-> AbsToFixed0(velocity) \o "%"]
    ELSE NoVelocityCell

\* the className of <tr>
RowClass(item) ==
    IF item.urgency = Str("critical") THEN "table-row-critical"
    ELSE IF item.urgency = Str("high") THEN "table-row-high"
    ELSE ""

\* one <tr> of the table
ReorderRow(item) ==
    [rowClass |-> RowClass(item),
     badge |-> getUrgencyBadge(item.urgency),
     velocity |-> VelocityCell(item.velocity_change_pct)]

NoRowItem == [urgency |-> Absent, velocity_change_pct |-> MissingNum]
NoRow == [rowClass |-> "", badge |-> ClassName(""), velocity |-> NoVelocityCell]

---------------------------------------------------------------------------
(* The result assemblers alone: one render on every response               *)

\* how many forecast points, and how many reorder items, a response holds
MaxPoints == 3
MaxItems == 3

\* sku ids: an ordinary one, two integer-like ones (the text of the larger
\* sorts before the text of the smaller), and one that names a property of
\* Object.prototype
SkuIdInputs == {"a1", "2", "1000000000", "constructor"}
DateInputs == {"2026-01-01", "2026-01-02"}
\* predicted_units in tenths: 1.5 and 2
UnitInputs == {15, 20}

PointInputs ==
    {[sku_id |-> k, sku_name |-> "SKU " \o k, forecast_date |-> d,
      predicted_units |-> u, confidence_lower |-> u - 5,
      confidence_upper |-> u + 5]
     : k \in SkuIdInputs, d \in DateInputs, u \in UnitInputs}

\* every sequence over a set, up to a length
SeqsUpTo(S, n) == UNION {[1..m -> S] : m \in 0..n}

\* urgency values: the four of the backend, an unknown one, one that names
\* a property of Object.prototype, null, and a missing field
UrgencyInputs == {Str("critical"), Str("high"), Str("medium"), Str("low"),
                  Str("urgent"), Str("constructor"), Null, Absent}

\* velocity_change_pct values: a rise, a fall, no change, null, a missing
\* field
VelocityInputs == {Num(5), Num(-3), Num(0), NullNum, MissingNum}

AssemblerBegin ==
    /\ aPc = "idle"
    /\ aForecast = NullForecast
    /\ aHorizon = DefaultHorizon
    /\ aLoading = FALSE
    /\ aStores = <<>>
    /\ aChart = NullChart
    /\ aForecastStats = NoForecastStats
    /\ aReorderList = NullReorderList
    /\ aReorderStats = ReorderStats(NullReorderList)
    /\ aRowItem = NoRowItem
    /\ aRow = NoRow

\* a render with a forecast held: the one after setForecast(data) and
\* setLoading(false), or one while a later loadForecast is in flight
RenderForecast(points, horizon, loading) ==
    /\ aPc = "idle"
    /\ aPc' = "forecast"
    /\ aForecast' = GetForecastResponse(points)
    /\ aHorizon' = horizon
    /\ aLoading' = loading
    /\ LET page == RenderForecastPage(GetForecastResponse(points), horizon)
       IN  /\ aChart' = page.chart
           /\ aForecastStats' = page.stats
    /\ UNCHANGED <<tVars, route, left, lastFail, upVars, rVars, fVars, sVars,
                   dVars,
                   aStores, aReorderList, aReorderStats, aRowItem, aRow>>

\* a render of ReorderPage with a reorder list held (setReorderList(data)
\* ran), for the store list and the loading flag of that render: the early
\* return `if (!stores.length && !loading)` shows "No Stores Found" and no
\* stat card, any other render shows the stats summary of the list
RenderReorder(items, stores, loading) ==
    /\ aPc = "idle"
    /\ aPc' = "reorder"
    /\ aReorderList' = GetReorderListResponse(items)
    /\ aStores' = stores
    /\ aLoading' = loading
    /\ aReorderStats' = IF Len(stores) = 0 /\ ~loading
                        THEN ReorderStats(NullReorderList)
                        ELSE ReorderStats(GetReorderListResponse(items))
    /\ UNCHANGED <<tVars, route, left, lastFail, upVars, rVars, fVars, sVars,
                   dVars,
                   aForecast, aHorizon, aChart, aForecastStats,
                   aRowItem,
                   aRow>>

\* the render of one row of reorderList.items.map(...)
RenderReorderRow(item) ==
    /\ aPc = "idle"
    /\ aPc' = "row"
    /\ aRowItem' = item
    /\ aRow' = ReorderRow(item)
    /\ UNCHANGED <<tVars, route, left, lastFail, upVars, rVars, fVars, sVars,
                   dVars,
                   aForecast, aHorizon, aLoading, aStores, aChart,
                   aForecastStats, aReorderList, aReorderStats>>

AssemblerInit ==
    /\ route = "none"
    /\ left = [c \in {"initDb", "uploadSales", "runForecast", "getForecast",
                      "seedFestivals"} |-> 0]
    /\ lastFail = NoFail
    /\ TInit
    /\ UploadInit
    /\ ReorderInit
    /\ ForecastInit
    /\ SettingsInit
    /\ DashboardInit
    /\ AssemblerBegin

AssemblerNext ==
    \/ /\ aPc = "idle"
       /\ \E points \in SeqsUpTo(PointInputs, MaxPoints) :
            \E horizon \in Horizons :
              \E loading \in BOOLEAN : RenderForecast(points, horizon, loading)
    \/ /\ aPc = "idle"
       /\ \E items \in SeqsUpTo([urgency : UrgencyInputs], MaxItems) :
            \E stores \in StoreLists :
              \E loading \in BOOLEAN : RenderReorder(items, stores, loading)
    \/ /\ aPc = "idle"
       /\ \E item \in [urgency : UrgencyInputs,
                        velocity_change_pct : VelocityInputs] :
            RenderReorderRow(item)

SpecAssembler == AssemblerInit /\ [][AssemblerNext]_vars

---------------------------------------------------------------------------
(* The application: App shows the page of the route it is opened at, and   *)
(* another page after a click on a link                                    *)

Routes == {"dashboard", "upload", "reorder", "forecast", "settings"}

\* how many runs of handlers of pages no longer shown are followed at a time
MaxLeft == 1

\* the calls awaited by the handlers that are followed after their page is
\* left: handleUpload awaits initDb and then uploadSales, handleRunForecast
\* awaits runForecast and then, in loadForecast, getForecast, and
\* seedFestivals awaits its call and then starts loadFestivals without
\* awaiting it.  The loaders (loadStores, loadSkus, loadReorderList,
\* loadFestivals, loadData, loadMandiPrices, loadSummary) await one call and
\* then only set state: left without a page they change nothing, and their
\* runs are not recorded.
LeftCalls == {"initDb", "uploadSales", "runForecast", "getForecast",
              "seedFestivals"}

NoLeft == [c \in LeftCalls |-> 0]

LeftCount == left["initDb"] + left["uploadSales"] + left["runForecast"]
             + left["getForecast"] + left["seedFestivals"]

\* the call awaited by the run of handleUpload, handleRunForecast or
\* seedFestivals of the page shown, "" when none is running
AwaitedCall ==
    CASE route = "upload" /\ upPc = "init"            -> "initDb"
      [] route = "upload" /\ upPc = "upload"          -> "uploadSales"
      [] route = "forecast" /\ fRun.pc = "run"        -> "runForecast"
      [] route = "forecast" /\ fRun.pc = "get"        -> "getForecast"
      [] route = "settings" /\ sSeedReq = "pending"   -> "seedFestivals"
      [] OTHER                                        -> ""

\* no page is mounted: every page's state is what its useState calls give
\* it at its next mount, and it has no request in flight
PagesUnmounted ==
    \* UploadPage
    /\ upFile' = NoFile
    /\ upUploading' = FALSE
    /\ upResult' = JNull
    /\ upError' = NoError
    /\ upDragover' = FALSE
    /\ upPc' = "idle"
    /\ upRunFile' = NoFile
    /\ upCalls' = <<>>
    /\ upInitErr' = NoError
    \* ReorderPage
    /\ rMounted' = FALSE
    /\ rReorderList' = NoReorderList
    /\ rLoading' = TRUE
    /\ rError' = NoError
    /\ rStores' = <<>>
    /\ rSelectedStore' = NoStore
    /\ rHorizon' = DefaultHorizon
    /\ rStoresReq' = "none"
    /\ rReqs' = {}
    /\ rIssued' = 0
    /\ rLatestOk' = FALSE
    \* ForecastPage
    /\ fMounted' = FALSE
    /\ fStores' = <<>>
    /\ fSelectedStore' = NoStore
    /\ fSkus' = NoSkus
    /\ fSelectedSku' = NoSku
    /\ fHorizon' = DefaultHorizon
    /\ fForecast' = NoForecast
    /\ fLoading' = FALSE
    /\ fRunning' = FALSE
    /\ fError' = NoError
    /\ fStoresReq' = "none"
    /\ fSkuReqs' = {}
    /\ fSkuIssued' = 0
    /\ fSkuLatestOk' = FALSE
    /\ fRun' = NotRunning
    \* SettingsPage
    /\ sMounted' = FALSE
    /\ sFestivals' = 0
    /\ sLoading' = TRUE
    /\ sSeeding' = FALSE
    /\ sMessage' = NoMessage
    /\ sFestReqs' = {}
    /\ sFestIssued' = 0
    /\ sSeedReq' = "none"
    /\ sSeeds' = 0
    \* DashboardPage
    /\ dMounted' = FALSE
    /\ dStores' = <<>>
    /\ dSummary' = NoSummary
    /\ dMandiPrices' = <<>>
    /\ dLoading' = TRUE
    /\ dSelectedStore' = NoStore
    /\ dStoresReq' = NotIssued(<<>>)
    /\ dMandiReq' = NotIssued([success |-> FALSE, records |-> <<>>])
    /\ dSumReqs' = {}
    /\ dSumIssued' = 0

Init ==
    /\ route \in Routes
    /\ left = NoLeft
    /\ lastFail = NoFail
    /\ TInit
    /\ UploadInit
    /\ ReorderInit
    /\ ForecastInit
    /\ SettingsInit
    /\ DashboardInit
    /\ AssemblerBegin

\* a click on a <NavLink> of the navigation bar or on a <Link> of the
\* dashboard that leads to another route: <Routes> unmounts the page shown,
\* whose state is dropped, and renders the other page with its initial
\* state.  A handler the page left has running goes on without its page.
Navigate(target) ==
    /\ route \in Routes
    /\ target \in Routes
    /\ target # route
    /\ route' = target
    /\ IF AwaitedCall = ""
       THEN left' = left
       ELSE /\ LeftCount < MaxLeft
            /\ left' = [left EXCEPT ![AwaitedCall] = @ + 1]
    /\ lastFail' = NoFail
    /\ PagesUnmounted
    /\ UNCHANGED <<tVars, aVars>>

\* the call a handler without its page awaits is answered.  After initDb
\* succeeded handleUpload issues api.uploadSales(file) and awaits it, after
\* runForecast succeeded handleRunForecast calls loadForecast, which issues
\* api.getForecast(...) and awaits it; after any other answer, and after a
\* throw, the handler sets state and returns.  Its page is unmounted, so
\* what it sets changes nothing a page shown holds.
LeftCallAnswered(call, net) ==
    /\ left[call] > 0
    /\ LET following == CASE call = "initDb"      -> "uploadSales"
                          [] call = "runForecast" -> "getForecast"
                          [] OTHER                -> ""
       IN  left' = IF api(call, net).ok /\ following # ""
                   THEN [left EXCEPT ![call] = @ - 1, ![following] = @ + 1]
                   ELSE [left EXCEPT ![call] = @ - 1]
    /\ lastFail' = NoFail
    /\ UNCHANGED <<tVars, route, upVars, rVars, fVars, sVars, dVars, aVars>>

Next ==
    \/ NextDashboard
    \/ NextUpload
    \/ NextReorder
    \/ NextForecast
    \/ NextSettings
    \/ \E target \in Routes : Navigate(target)
    \/ \E call \in LeftCalls :
         \E net \in {Reject("Failed to fetch"), Success(0)} :
           LeftCallAnswered(call, net)

Spec == Init /\ [][Next]_vars

\* the Transport Client alone: every operation on every network outcome
TransportInit ==
    /\ route = "none"
    /\ left = NoLeft
    /\ lastFail = NoFail
    /\ TInit
    /\ UploadInit
    /\ ReorderInit
    /\ ForecastInit
    /\ SettingsInit
    /\ DashboardInit
    /\ AssemblerBegin

TransportNext == \E op \in Operations : \E net \in NetOutcomes : TCall(op, net)

SpecTransport == TransportInit /\ [][TransportNext]_vars

\* One visit of the reorder page in which the first render happens and every
\* request issued is answered, with success or failure; what the user does,
\* and whether the user does anything, is left open.
ReorderLiveInit == Init /\ route = "reorder"

ReorderRequestsComplete ==
    /\ WF_vars(ReorderMount)
    /\ WF_vars(\E net \in SomeFailures \cup {Success(0)} :
                 \E data \in StoreLists : loadStoresDone(net, data))
    /\ WF_vars(\E q \in rReqs :
                 \E net \in SomeFailures \cup {Success(0)} :
                     loadReorderListDone(q, net))

SpecReorderLive ==
    ReorderLiveInit /\ [][NextReorder]_vars /\ ReorderRequestsComplete

---------------------------------------------------------------------------
(* Claims                                                                  *)

\* the error state of the page shown
PageError == CASE route = "upload"   -> upError
               [] route = "reorder"  -> rError
               [] route = "settings" -> IF sMessage.type = "error"
                                        THEN Str(sMessage.text) ELSE NoError
               [] OTHER              -> fError

\* C1: upload page, handleUpload: in a run in which initDb throws,
\* uploadSales is never issued (the run's only call is initDb and the handler
\* has ended), and the error the page holds when the run ends is the
\* message initDb threw, unchanged.
C1_InitFailureStopsUpload ==
    /\ upInitErr # NoError =>
         /\ upCalls = <<"initDb">>
         /\ upPc = "idle"
         /\ ~upUploading
    /\ lastFail.call = "initDb" =>
         /\ upInitErr = Str(lastFail.msg)
         /\ upError = Str(lastFail.msg)

\* a run has just ended on an initDb failure, a file still chosen
C1_Witness ==
    /\ lastFail.call = "initDb"
    /\ upInitErr # NoError
    /\ upFile # NoFile
    /\ upError = Str("Failed to fetch")

\* C2: forecast page: when every SKU-list request has completed and the one
\* issued last (for the newly selected store) succeeded, the SKU list held
\* is the one of the selected store, and the selected SKU is of that list.
C2_OnlyNewStoreSkusActedUpon ==
    (fSkuReqs = {} /\ fSkuLatestOk) =>
        /\ fSkus.store = fSelectedStore
        /\ Len(fSkus.list) > 0 =>
             fSelectedSku \in {NoSku} \cup {fSkus.list[i] : i \in 1..Len(fSkus.list)}

\* C3: reorder page: when every reorder-list request has completed and the
\* one issued last succeeded, the list held is the answer to that request.
C3_LaterIssuedRequestWins ==
    (rReqs = {} /\ rLatestOk) => rReorderList.req = rIssued

\* C4: reorder page: a reorder-list request is in flight only after the
\* store list has resolved, and never for an empty store id.
C4_NoReorderRequestWithoutStore ==
    \A q \in rReqs : q.store # NoStore /\ rStoresReq = "done"

\* C5: forecast page: SKU-list, run-forecast and get-forecast requests are
\* in flight only after the store list has resolved, for a store of that
\* list, never for an empty store id.
C5_ForecastRequestsNeedStore ==
    /\ \A q \in fSkuReqs : /\ q.store # NoStore
                           /\ fStoresReq = "done"
                           /\ q.store \in StoreIds(fStores)
    /\ fRun.pc # "idle" => /\ fRun.store # NoStore
                           /\ fStoresReq = "done"
                           /\ fRun.store \in StoreIds(fStores)

\* a get-forecast request and an SKU-list request are both in flight
C5_Witness ==
    /\ fRun.pc = "get"
    /\ fSkuReqs # {}
    /\ fRun.store = "s2"

\* C6: forecast page: an SKU-list request is in flight only after the store
\* list has resolved, and a run-forecast or get-forecast request is never in
\* flight together with an SKU-list request for the same store.
C6_ForecastAfterSkuList ==
    /\ \A q \in fSkuReqs : fStoresReq = "done"
    /\ fRun.pc # "idle" => \A q \in fSkuReqs : q.store # fRun.store

\* the alert `{error && ...}` is rendered
ErrorShown == IF route = "reorder" THEN ReorderErrorShown
              ELSE Truthy(PageError)

\* C7: whatever call of a page has just failed, the page's error state is
\* that failure's message, unchanged, and is shown.
C7_EveryFailureSurfacesVerbatim ==
    lastFail # NoFail => /\ PageError = Str(lastFail.msg)
                         /\ ErrorShown

\* the step issues no request of any operation of any page
NoRequestIssued ==
    /\ upCalls' = upCalls
    /\ rIssued' = rIssued
    /\ rReqs' \subseteq rReqs
    /\ rStoresReq' = "pending" => rStoresReq = "pending"
    /\ fSkuIssued' = fSkuIssued
    /\ fSkuReqs' \subseteq fSkuReqs
    /\ fStoresReq' = "pending" => fStoresReq = "pending"
    /\ fRun' = fRun \/ fRun'.pc = "idle"
    /\ sFestIssued' = sFestIssued
    /\ sFestReqs' \subseteq sFestReqs
    /\ sSeedReq' = "pending" => sSeedReq = "pending"
    /\ dStoresReq'.state = "pending" => dStoresReq.state = "pending"
    /\ dMandiReq'.state = "pending" => dMandiReq.state = "pending"
    /\ dSumIssued' = dSumIssued
    /\ dSumReqs' \subseteq dSumReqs

\* the step ends one request: the one in flight before it is no longer
AttemptEnded ==
    \/ upPc # "idle" /\ upPc' = "idle"
    \/ rStoresReq = "pending" /\ rStoresReq' = "done"
    \/ Cardinality(rReqs') = Cardinality(rReqs) - 1
    \/ fStoresReq = "pending" /\ fStoresReq' = "done"
    \/ Cardinality(fSkuReqs') = Cardinality(fSkuReqs) - 1
    \/ fRun.pc # "idle" /\ fRun'.pc = "idle"
    \/ Cardinality(sFestReqs') = Cardinality(sFestReqs) - 1
    \/ sSeedReq = "pending" /\ sSeedReq' = "none"
    \/ dStoresReq.state = "pending" /\ dStoresReq'.state = "done"
    \/ dMandiReq.state = "pending" /\ dMandiReq'.state = "done"
    \/ Cardinality(dSumReqs') = Cardinality(dSumReqs) - 1

\* the step issues a request of operation op, from the page shown or from
\* a handler of a page left
RequestIssued(op) ==
    \/ left' # left /\ route' = route /\ op \in LeftCalls /\ left'[op] > left[op]
    \/ CASE op = "initDb" -> upPc' = "init" /\ upPc # "init"
         [] op = "uploadSales" -> upPc' = "upload" /\ upPc # "upload"
         [] op = "getStores" ->
                \/ rStoresReq' = "pending" /\ rStoresReq # "pending"
                \/ fStoresReq' = "pending" /\ fStoresReq # "pending"
                \/ dStoresReq'.state = "pending" /\ dStoresReq.state # "pending"
         [] op = "getReorderList" -> rIssued' > rIssued
         [] op = "getStoreSKUs" -> fSkuIssued' > fSkuIssued
         [] op = "runForecast" -> fRun'.pc = "run" /\ fRun.pc # "run"
         [] op = "getForecast" -> fRun'.pc = "get" /\ fRun.pc # "get"
         [] op = "getFestivals" -> sFestIssued' > sFestIssued
         [] op = "seedFestivals" -> sSeedReq' = "pending" /\ sSeedReq # "pending"
         [] op = "getMandiPrices" ->
                dMandiReq'.state = "pending" /\ dMandiReq.state # "pending"
         [] op = "getReorderSummary" -> dSumIssued' > dSumIssued
         [] OTHER -> FALSE

\* the step is no action of the user and no mount: the page stays, and the
\* answer of a request in flight is handled
AnswerHandled ==
    /\ route' = route
    /\ \/ AttemptEnded
       \/ upPc = "init" /\ upPc' = "upload"
       \/ fRun.pc = "run" /\ fRun'.pc = "get"
       \/ left' # left

\* the step is the continuation of a handler after a successful answer that
\* issues op: handleUpload after initDb, handleRunForecast's loadForecast
\* after runForecast, the effects on the store selected by loadStores and
\* loadData, and seedFestivals' loadFestivals
SuccessContinuation(op) ==
    /\ lastFail' = NoFail
    /\ \/ op = "uploadSales" /\ \/ upPc = "init"
                                \/ left'["initDb"] < left["initDb"]
       \/ op = "getForecast" /\ \/ fRun.pc = "run"
                                \/ left'["runForecast"] < left["runForecast"]
       \/ op = "getReorderList" /\ rStoresReq = "pending" /\ rStoresReq' = "done"
       \/ op = "getStoreSKUs" /\ fStoresReq = "pending" /\ fStoresReq' = "done"
       \/ op = "getReorderSummary" /\ /\ dStoresReq.state = "pending"
                                      /\ dStoresReq'.state = "done"
       \/ op = "getFestivals" /\ sSeedReq = "pending" /\ sSeedReq' = "none"

\* a request of op that a step issues which is no user action and no mount
\* is the continuation of a handler after a successful answer
Continued(op) == AnswerHandled => SuccessContinuation(op)

\* RequestIssued(op) => Continued(op) for every operation op (a page issues
\* no request of health, getStore or updateStock), the operations taken one
\* by one
OnlyContinuationsIssue ==
    /\ (upPc' = "init" /\ upPc # "init") => Continued("initDb")
    /\ (upPc' = "upload" /\ upPc # "upload") => Continued("uploadSales")
    /\ (rStoresReq' = "pending" /\ rStoresReq # "pending")
           => Continued("getStores")
    /\ (fStoresReq' = "pending" /\ fStoresReq # "pending")
           => Continued("getStores")
    /\ (dStoresReq'.state = "pending" /\ dStoresReq.state # "pending")
           => Continued("getStores")
    /\ rIssued' > rIssued => Continued("getReorderList")
    /\ fSkuIssued' > fSkuIssued => Continued("getStoreSKUs")
    /\ (fRun'.pc = "run" /\ fRun.pc # "run") => Continued("runForecast")
    /\ (fRun'.pc = "get" /\ fRun.pc # "get") => Continued("getForecast")
    /\ sFestIssued' > sFestIssued => Continued("getFestivals")
    /\ (sSeedReq' = "pending" /\ sSeedReq # "pending")
           => Continued("seedFestivals")
    /\ (dMandiReq'.state = "pending" /\ dMandiReq.state # "pending")
           => Continued("getMandiPrices")
    /\ dSumIssued' > dSumIssued => Continued("getReorderSummary")
    /\ (left' # left /\ route' = route) =>
           \A op \in LeftCalls : left'[op] > left[op] => Continued(op)

\* C11 as stated: no automatic retries: the step that handles a failed
\* request ends that attempt and issues no request, and once a request of
\* an operation has failed, a step that is no user action issues no request
\* of that operation.
C11_NoRequestUntilUserAction ==
    /\ [][lastFail' # NoFail => (NoRequestIssued /\ AttemptEnded)]_vars
    /\ [][\A op \in Operations :
            (lastFail.call = op /\ AnswerHandled) => ~RequestIssued(op)]_vars

\* C11, amended: on every page, the step that handles a failed request ends
\* that attempt and issues no request of any operation; and a step that is
\* no user action and no mount issues a request only as the continuation of
\* a handler after a successful answer. So after a failure a further request
\* of the operation comes, before the user acts, only from a request of
\* another operation that was already in flight and succeeds.
C11_NoAutomaticRetry ==
    /\ [][lastFail' # NoFail => (NoRequestIssued /\ AttemptEnded)]_vars
    /\ [][OnlyContinuationsIssue]_vars

\* on the reorder page a reorder-list request has failed, nothing is in
\* flight and the one request issued stays the only one
C11_Witness ==
    /\ lastFail.call = "getReorderList"
    /\ rIssued = 1
    /\ rReqs = {}
    /\ ~rLoading

\* the four states C12 names, on the state the controller holds: loading
\* (the flag), ready (a list held, no error), failed (an error set, not
\* loading), idle (none of these: nothing held, nothing under way)
C12_Loading == rLoading
C12_Ready == ~rLoading /\ rReorderList # NoReorderList /\ ~Truthy(rError)
C12_Failed == ~rLoading /\ Truthy(rError)
C12_Idle == ~rLoading /\ rReorderList = NoReorderList /\ ~Truthy(rError)

\* C12: the reorder page's controller starts in idle; it is always in
\* exactly one of idle, loading, ready (list held, no error) and failed
\* (error set, not loading); it is in loading while a fetch is in flight;
\* the step that ends a fetch leaves it in ready or failed; and ready and
\* failed are left only for loading.
C12_ReorderStateMachine ==
    /\ route = "reorder" => C12_Idle
    /\ [](route = "reorder" =>
            /\ Cardinality({i \in 1..4 :
                   <<C12_Idle, C12_Loading, C12_Ready, C12_Failed>>[i]}) = 1
            /\ (rReqs # {} \/ rStoresReq = "pending") => C12_Loading)
    /\ [][(route = "reorder" /\ route' = "reorder") =>
            /\ (rReqs' # rReqs /\ rReqs' \subseteq rReqs) =>
                   (C12_Ready' \/ C12_Failed')
            /\ ((C12_Ready \/ C12_Failed)
                 /\ ~(C12_Ready /\ C12_Ready')
                 /\ ~(C12_Failed /\ C12_Failed')) => C12_Loading']_vars

\* C13: a step that changes the selected store issues the dependent
\* requests for the new store: on the forecast page an SKU-list request and
\* a forecast request, on the reorder page a reorder-list request; and once
\* no request is in flight (the last one issued having succeeded) the SKU
\* list, forecast and reorder list held are those of the selected store.
C13_StoreChangeRefetches ==
    /\ [][(fSelectedStore' # fSelectedStore /\ route' = route) =>
            /\ \E q \in fSkuReqs' \ fSkuReqs : q.store = fSelectedStore'
            /\ fRun' # fRun /\ fRun'.pc # "idle"
                 /\ fRun'.store = fSelectedStore']_vars
    /\ [][(rSelectedStore' # rSelectedStore /\ route' = route) =>
            \E q \in rReqs' \ rReqs : q.store = rSelectedStore']_vars
    /\ []((fSkuReqs = {} /\ fRun.pc = "idle") =>
            /\ fSkuLatestOk => fSkus.store = fSelectedStore
            /\ fForecast.held => fForecast.store = fSelectedStore)
    /\ []((rReqs = {} /\ rLatestOk) => rReorderList.store = rSelectedStore)

\* C14: upload page: the file held is none or a .csv file; a step that
\* refuses a file (sets "Please select a CSV file") issues no call and
\* leaves the file held as it was; and every run of handleUpload, whose
\* calls are initDb and uploadSales, carries a file whose name ends in .csv.
C14_NonCsvNeverSent ==
    /\ [](/\ upFile # NoFile => EndsWith(upFile, ".csv")
          /\ upCalls # <<>> => EndsWith(upRunFile, ".csv"))
    /\ [][(upError' = Str("Please select a CSV file") /\ upError' # upError) =>
            /\ upCalls' = upCalls
            /\ upPc' = upPc
            /\ upFile' = upFile]_vars

\* notes.txt was refused while sales.csv was held, and sales.csv was then
\* sent: the run issued initDb and uploadSales
C14_Witness ==
    /\ upRunFile = "sales.csv"
    /\ upCalls = <<"initDb", "uploadSales">>
    /\ upError = Str("Please select a CSV file")

\* what the dashboard holds once a call has completed, from the call's
\* outcome alone
ExpectedStores(req) ==
    IF getStores(req.net).ok THEN req.data ELSE <<>>
ExpectedSelectedStore(req) ==
    IF getStores(req.net).ok /\ Len(req.data) > 0 THEN req.data[1] ELSE NoStore
ExpectedMandiPrices(req) ==
    IF getMandiPrices(req.net).ok /\ req.data.success
    THEN req.data.records ELSE <<>>

\* C23: dashboard: the first render issues the store-list and the
\* market-price request together; whichever completes first, and whether
\* either fails, the store list held is that of the store-list outcome and
\* the market-price list that of the market-price outcome (empty before
\* completion and after a failure); the step that completes the store-list
\* request selects the store its outcome gives; and the completion of one
\* request leaves the other request and its result as they are.
C23_DashboardFetchesIndependent ==
    /\ [][(dMounted' /\ ~dMounted) =>
            /\ dStoresReq'.state = "pending"
            /\ dMandiReq'.state = "pending"]_vars
    /\ [](/\ dStores = IF dStoresReq.state = "done"
                       THEN ExpectedStores(dStoresReq) ELSE <<>>
          /\ dMandiPrices = IF dMandiReq.state = "done"
                            THEN ExpectedMandiPrices(dMandiReq) ELSE <<>>
          /\ dStoresReq.state # "done" => dSelectedStore = NoStore)
    /\ [][(dStoresReq.state = "pending" /\ dStoresReq'.state = "done") =>
            /\ dSelectedStore' = ExpectedSelectedStore(dStoresReq)
            /\ dMandiReq' = dMandiReq
            /\ dMandiPrices' = dMandiPrices]_vars
    /\ [][(dMandiReq.state = "pending" /\ dMandiReq'.state = "done") =>
            /\ dStoresReq' = dStoresReq
            /\ dStores' = dStores
            /\ dSelectedStore' = dSelectedStore]_vars

\* the store-list request failed first, the market-price request then
\* succeeded, and its records are held
C23_Witness ==
    /\ lastFail = NoFail
    /\ dStoresReq.state = "done"
    /\ ~getStores(dStoresReq.net).ok
    /\ dMandiReq.state = "done"
    /\ dMandiPrices = <<"wheat", "rice">>

\* C25: reorder page: the loading flag is true whenever at least one
\* reorder-list request is in flight, overlapping requests included.
C25_LoadingWhileRequestInFlight ==
    (route = "reorder" /\ rReqs # {}) => rLoading

\* C24: reorder page, every issued request being answered: once the page is
\* entered the loading flag eventually becomes false (checked under
\* SpecReorderLive).
C24_LoadingEventuallyFalse ==
    (route = "reorder" /\ rMounted) ~> ~rLoading

\* C26: forecast page, Run Forecast: a get-forecast request is issued only
\* by the step in which the run-forecast request of the same click
\* succeeded, with that request's store and horizon, whatever the selectors
\* hold by then; the step in which run-forecast fails issues none, ends the
\* click's run and sets the error state to the run's message.
C26_GetForecastFollowsItsRun ==
    /\ [][(fRun'.pc = "get" /\ fRun.pc # "get") =>
            /\ fRun.pc = "run"
            /\ lastFail' = NoFail
            /\ fRun'.store = fRun.store
            /\ fRun'.horizon = fRun.horizon]_vars
    /\ [][lastFail'.call = "runForecast" =>
            /\ fRun.pc = "run"
            /\ fRun'.pc = "idle"
            /\ ~fLoading' /\ ~fRunning'
            /\ fError' = Str(lastFail'.msg)]_vars

\* the get-forecast request is in flight for the store and horizon of the
\* click, after the user changed both selectors
C26_Witness ==
    /\ fRun.pc = "get"
    /\ fRun.store = "s1" /\ fSelectedStore = "s2"
    /\ fRun.horizon = 7 /\ fHorizon = 30

\* C27: forecast page: a forecast displayed was fetched for the store and
\* the horizon now selected, so the average daily demand shown divides by
\* the horizon of the fetch.
C27_ForecastMatchesSelection ==
    fForecast.held => /\ fForecast.store = fSelectedStore
                      /\ fForecast.horizon = fHorizon

\* C28: forecast page: a get-forecast request filters on no SKU or on a SKU
\* of the store it is sent with.
C28_SkuBelongsToStore ==
    fRun.pc = "get" =>
        fRun.sku \in {NoSku} \cup
            {SkusOf(fRun.store)[i] : i \in 1..Len(SkusOf(fRun.store))}

\* how many init-then-upload sequences are in flight: the one of the page
\* shown, and those of earlier visits of the page that still await initDb
\* or uploadSales
UploadSequencesInFlight ==
    (IF upPc # "idle" THEN 1 ELSE 0) + left["initDb"] + left["uploadSales"]

\* C29: upload page: at most one sequence of handleUpload (initDb, then
\* uploadSales) is in flight at any time, so one starts only when none is;
\* the uploading flag is true exactly while one is in flight; and the step
\* that ends the page's sequence, by success, by an initDb failure or by an
\* uploadSales failure, leaves the flag false.
C29_OneUploadSequence ==
    /\ [](/\ UploadSequencesInFlight <= 1
          /\ upUploading <=> UploadSequencesInFlight > 0)
    /\ [][(upPc' = "init" /\ upPc # "init") =>
            (UploadSequencesInFlight = 0 /\ ~upUploading)]_vars
    /\ [][(upPc # "idle" /\ upPc' = "idle" /\ route' = route) =>
            ~upUploading']_vars

\* C30: upload page: a success result and an error are never both held.
C30_ResultAndErrorExclusive ==
    ~(upResult # JNull /\ upError # NoError)

---------------------------------------------------------------------------
(* Claims on the result assemblers, under SpecAssembler                    *)

\* the sku ids of a point list, and the points of one sku id in input order
SkuIdsOf(points) == {points[i].sku_id : i \in 1..Len(points)}
PointsOf(points, id) ==
    LET OfId(f) == f.sku_id = id IN SelectSeq(points, OfId)

RECURSIVE FirstSeen(_, _)
\* the distinct sku ids of a point list in first-seen order
FirstSeen(points, seen) ==
    IF Len(points) = 0 THEN seen
    ELSE FirstSeen(Tail(points),
                   IF \E i \in 1..Len(seen) : seen[i] = points[1].sku_id
                   THEN seen ELSE Append(seen, points[1].sku_id))

\* C15: getChartData on every point list: it does not throw, its series are
\* one per distinct sku_id, and the dates, values, lower and upper sequences
\* of each series all have the length of the number of points of that sku.
C15_OneSeriesPerSku ==
    aPc = "forecast" =>
        LET points == aForecast.forecasts
            series == aChart.series
        IN  /\ aChart.kind # "throw"
            /\ Len(series) = Cardinality(SkuIdsOf(points))
            /\ {series[i].id : i \in 1..Len(series)} = SkuIdsOf(points)
            /\ \A i \in 1..Len(series) :
                 LET n == Len(PointsOf(points, series[i].id))
                 IN  /\ Len(series[i].dates) = n
                     /\ Len(series[i].values) = n
                     /\ Len(series[i].lower) = n
                     /\ Len(series[i].upper) = n

\* C16: getChartData on every non-empty point list: the series, and the
\* datasets built from them, are in first-seen order of sku_id, and each
\* series holds its points in input order.
C16_FirstSeenOrder ==
    (aPc = "forecast" /\ Len(aForecast.forecasts) > 0) =>
        LET points == aForecast.forecasts
            order == FirstSeen(points, <<>>)
            series == aChart.series
        IN  /\ aChart.kind = "chart"
            /\ [i \in 1..Len(series) |-> series[i].id] = order
            /\ Len(aChart.datasets) = Len(order)
            /\ \A i \in 1..Len(series) :
                 LET own == PointsOf(points, order[i])
                 IN  /\ series[i].dates =
                          [j \in 1..Len(own) |-> own[j].forecast_date]
                     /\ series[i].values =
                          [j \in 1..Len(own) |-> own[j].predicted_units]
                     /\ aChart.datasets[i].data = series[i].values
                     /\ aChart.datasets[i].label = own[1].sku_name

\* the chart card is rendered: {!loading && chartData && (...)}
ChartRendered == ~aLoading /\ aChart.kind = "chart"

\* C17 as stated: on an empty point list getChartData returns an empty
\* mapping: a result with no series, not an error and not an absent result.
C17_EmptyListGivesEmptyMapping ==
    (aPc = "forecast" /\ Len(aForecast.forecasts) = 0) =>
        /\ aChart.kind = "chart"
        /\ aChart.series = <<>>

\* C17 as amended: on an empty point list getChartData does not throw and
\* returns null, neither a mapping nor datasets, so the chart is not rendered
\* (the stat cards are, with zero points).
C17_EmptyListGivesNull ==
    (aPc = "forecast" /\ Len(aForecast.forecasts) = 0) =>
        /\ aChart.kind = "null"
        /\ aChart.datasets = <<>>
        /\ ~ChartRendered
        /\ aForecastStats.shown /\ aForecastStats.points = 0

\* an empty forecast was rendered: no chart data, the stats show zero
C17_Witness ==
    /\ aPc = "forecast"
    /\ aForecast.held
    /\ aForecast.forecasts = <<>>
    /\ aChart = NullChart
    /\ aForecastStats.total = Finite(0)

\* C18: the total the forecast page shows is the exact sum of
\* predicted_units over the points held, for every list.
C18_TotalIsExactSum ==
    aPc = "forecast" =>
        /\ aForecastStats.shown
        /\ aForecastStats.total =
             Finite(SumPredictedUnits(aForecast.forecasts))

\* the stat cards are on screen: a list is held and the render did not
\* take the early return to "No Stores Found"
C20_SummaryShown == aReorderList.held /\ ~(Len(aStores) = 0 /\ ~aLoading)

\* C20: the reorder page's stats, in every render that shows them (every
\* render with a list held but the one of "No Stores Found"): critical +
\* high + medium shown, plus the number of items whose urgency is none of
\* the three, is the total shown; for the empty list all of them are zero.
\* The page counts high and medium itself, and with the items that are
\* neither they make up the list whatever the response's counts are.
C20_BucketsSumToTotal ==
    aPc = "reorder" =>
        LET items == aReorderList.items
            other == Cardinality({i \in 1..Len(items) :
                       items[i].urgency \notin
                           {Str("critical"), Str("high"), Str("medium")}})
            notHighMedium == Cardinality({i \in 1..Len(items) :
                       items[i].urgency \notin {Str("high"), Str("medium")}})
        IN  /\ aReorderStats.shown <=> C20_SummaryShown
            /\ aReorderStats.shown =>
                 /\ aReorderStats.critical + aReorderStats.high
                    + aReorderStats.medium + other = aReorderStats.total
                 /\ aReorderStats.high + aReorderStats.medium + notHighMedium
                    = Len(items)
                 /\ Len(items) = 0 =>
                      /\ aReorderStats.total = 0
                      /\ aReorderStats.critical = 0
                      /\ aReorderStats.high = 0
                      /\ aReorderStats.medium = 0

\* a list of a critical, a high and an unknown-urgency item was rendered
\* with its stat cards, for a store list that is not empty
C20_Witness ==
    /\ aPc = "reorder"
    /\ aStores # <<>>
    /\ aReorderStats.shown
    /\ aReorderList.items = <<[urgency |-> Str("critical")],
                              [urgency |-> Str("high")],
                              [urgency |-> Str("urgent")]>>
    /\ aReorderStats.total = 3
    /\ aReorderStats.critical = 1
    /\ aReorderStats.high = 1
    /\ aReorderStats.medium = 0

\* the urgency values the badges name, and the three the stat cards count
NamedUrgencies == {Str(k) : k \in BadgeKeys}
CountedUrgencies == {Str("critical"), Str("high"), Str("medium")}

\* C21: reorder page, for every urgency value, unknown, null and missing
\* ones included: the badge of a row is a class name, the one of its
\* urgency for a named urgency and the neutral 'badge' for any other, whose
\* row also gets no urgency row class; and the three stat cards together
\* count exactly the items whose urgency is critical, high or medium.
C21_UrgencyClassificationTotal ==
    /\ aPc = "row" =>
          LET u == aRowItem.urgency
          IN  /\ aRow.badge.kind = "string"
              /\ u \in NamedUrgencies =>
                    aRow.badge = ClassName("badge badge-" \o u.s)
              /\ u \notin NamedUrgencies =>
                    /\ aRow.badge = ClassName("badge")
                    /\ aRow.rowClass = ""
    /\ aPc = "reorder" =>
          LET items == aReorderList.items
          IN  aReorderStats.critical + aReorderStats.high
              + aReorderStats.medium =
                Cardinality({i \in 1..Len(items) :
                               items[i].urgency \in CountedUrgencies})

\* the indicator a rendered velocity cell shows for a value
IndicatorFor(v, cell) ==
    /\ GreaterThanZero(v) =>
          /\ cell.icon = "TrendingUp"
          /\ cell.class = "velocity-change velocity-up"
    /\ LessThanZero(v) =>
          /\ cell.icon = "TrendingDown"
          /\ cell.class = "velocity-change velocity-down"
    /\ (~GreaterThanZero(v) /\ ~LessThanZero(v)) =>
          /\ cell.icon = "Minus"
          /\ cell.class = "velocity-change velocity-neutral"

\* C22 as stated: the velocity cell of a row shows an indicator for every
\* value: trending up for a positive one, trending down for a negative
\* one, neutral for zero, for null and for a missing field.
C22_VelocityIndicatorTotal ==
    aPc = "row" =>
        /\ aRow.velocity.rendered
        /\ IndicatorFor(aRowItem.velocity_change_pct, aRow.velocity)

\* C22, amended: getVelocityClass gives a class for every value, the
\* neutral one for zero, null and a missing field; the velocity cell shows
\* the indicator for every value but null (trending up for a positive one,
\* trending down for a negative one, neutral for zero and for a missing
\* field, whose text is "NaN%"), and for null it shows nothing.
C22_VelocityIndicatorExceptNull ==
    aPc = "row" =>
        LET v == aRowItem.velocity_change_pct
        IN  /\ v.t \in {"null", "absent"} =>
                  getVelocityClass(v) = "velocity-change velocity-neutral"
            /\ v.t = "null" => aRow.velocity = NoVelocityCell
            /\ v.t # "null" =>
                  /\ aRow.velocity.rendered
                  /\ IndicatorFor(v, aRow.velocity)
            /\ v.t = "absent" => aRow.velocity.text = "NaN%"

\* a row whose velocity_change_pct is null was rendered: its cell is empty
C22_Witness ==
    /\ aPc = "row"
    /\ aRowItem.velocity_change_pct = NullNum
    /\ ~aRow.velocity.rendered

---------------------------------------------------------------------------
(* Claims on the Transport Client, under SpecTransport                     *)

\* the call made got an HTTP error response
HttpErrorAnswered == /\ tPc = "done"
                     /\ tNet.kind = "response"
                     /\ tNet.status \notin 200..299

\* the call made had its fetch rejected
FetchRejected == tPc = "done" /\ tNet.kind = "reject"

\* a field the body holds (whatever its value)
Present(v) == v.t # "absent"

\* the message C8 states for an HTTP error response
C8_StatedMessage(resp) ==
    LET j == resp.body.json
    IN  IF ~resp.body.parse THEN "Request failed"
        ELSE IF Present(j.detail) THEN ErrorMessageOf(j.detail)
        ELSE IF Present(j.message) THEN ErrorMessageOf(j.message)
        ELSE "Server returned " \o ToString(resp.status) \o ": " \o resp.statusText

\* C8 as stated: on an HTTP error response the thrown message is detail if
\* present, else message if present, else (parsed, neither) the text made of
\* status and reason phrase, else (not parseable) "Request failed".
C8_MessagePrecedenceAsStated ==
    HttpErrorAnswered =>
        /\ ~tResult.ok
        /\ tResult.msg = C8_StatedMessage(tNet)

\* C8 as amended: on an HTTP error response the call throws; the message is
\* the text of detail if detail is truthy, else the text of message if that
\* is truthy (String() of it: a string gives itself, a plain object
\* "[object Object]", an empty array ""), else the JSON text of the parsed
\* body; a body that is not JSON, or is null, gives
\* "Server returned <status>: <reason phrase>"; "Request failed" is never
\* the message.
C8_MessagePrecedence ==
    HttpErrorAnswered =>
        LET j == tNet.body.json
            d == j.detail
            m == j.message
            falsy(v) == v.t \in {"absent", "null"} \/ v = Str("")
        IN  /\ ~tResult.ok
            /\ tResult.msg # "Request failed"
            /\ (~tNet.body.parse \/ j.t = "null") =>
                 tResult.msg = "Server returned " \o ToString(tNet.status)
                                 \o ": " \o tNet.statusText
            /\ (tNet.body.parse /\ j.t # "null") =>
                 /\ (d.t = "str" /\ d.s # "") => tResult.msg = d.s
                 /\ d.t = "obj" => tResult.msg = "[object Object]"
                 /\ d.t = "arr" => tResult.msg = ""
                 /\ (falsy(d) /\ m.t = "str" /\ m.s # "") => tResult.msg = m.s
                 /\ (falsy(d) /\ m.t = "obj") => tResult.msg = "[object Object]"
                 /\ (falsy(d) /\ m.t = "arr") => tResult.msg = ""
                 /\ (falsy(d) /\ falsy(m)) => tResult.msg = JSONStringify(j)

\* getStores got an HTTP 404 whose body is not JSON and threw the text made
\* of status and reason phrase
C8_Witness ==
    /\ HttpErrorAnswered
    /\ tOp = "getStores"
    /\ ~tNet.body.parse
    /\ tResult = Throw("Server returned 404: Not Found")

\* the two messages written for an unreachable backend
UnreachableMessages == {CannotConnect, NetworkError}

\* HTTP 500 with body {"detail":"boom"}
Boom500 == Response(500, "Internal Server Error",
                    Parsed(ErrObject(Str("boom"), Absent)))

\* C9: for every operation, a rejected fetch gives one of the dedicated
\* service-unreachable messages, which is not the message of an HTTP 500
\* with body {"detail":"boom"}, and that message is "boom".
C9_RejectedFetchGivesUnreachableMessage ==
    /\ FetchRejected => /\ ~tResult.ok
                        /\ tResult.msg \in UnreachableMessages
                        /\ tResult.msg # api(tOp, Boom500).msg
    /\ (tPc = "done" /\ tNet = Boom500) => tResult.msg = "boom"

\* the message of every HTTP error response of the model
HttpDerivedMessages ==
    {handleResponse(resp).msg : resp \in {x \in Responses : ~ResponseOk(x)}}

\* C10: health and uploadSales keep the two failure classes apart: an HTTP
\* error response gives the message handleResponse derives from it, never a
\* service-unreachable message, and a rejected fetch never gives a message
\* derived from an HTTP response.
C10_FailureClassesNotConfused ==
    tOp \in {"health", "uploadSales"} =>
        /\ HttpErrorAnswered => /\ ~tResult.ok
                                /\ tResult.msg \notin UnreachableMessages
                                /\ tResult.msg = handleResponse(tNet).msg
        /\ FetchRejected => /\ ~tResult.ok
                            /\ tResult.msg \notin HttpDerivedMessages
                            /\ tResult.msg \in UnreachableMessages \cup {tNet.msg}

\* health got an HTTP 500 with detail "boom" and threw "boom"
C10_Witness ==
    /\ tOp = "health"
    /\ tNet = Boom500
    /\ tPc = "done"
    /\ tResult = Throw("boom")

===========================================================================
